---- MODULE Spec2Model ----
(***************************************************************************)
(* mangalytics: the scrape / extract / narrate pipeline and the narrative   *)
(* parser, as state machines.                                               *)
(*                                                                          *)
(*   SpecParser  GeminiService._parse_manga_panels applied to every bounded *)
(*               narrative text.                                            *)
(*   Spec        the four endpoints (scrape-and-upload, recommendations,    *)
(*               manga, subscribe) served one request at a time against    *)
(*               the storage buckets and the two metadata tables.          *)
(*   SpecConc    POST /recommendations requests whose store calls           *)
(*               interleave (several server processes on one store).        *)
(*   SpecCalls   list_files_in_path, create_all_panels, the panels part of  *)
(*               _build_manga_html, create_panel_image and process_pdf,     *)
(*               each applied to every bounded argument.                    *)
(*   SpecPollFair  the polling loop of process_pdf, where every request to  *)
(*               the parsing service returns.                               *)
(***************************************************************************)
EXTENDS Integers, Sequences, FiniteSets, TLC

(***************************************************************************)
(* Text.  A text is a sequence of tokens: the literals the parser looks     *)
(* for, a line break, a blank, and one ordinary character.                  *)
(***************************************************************************)
MaxTextLen == 6

Tok == {"sp", "nl", "[PANEL", "Title:", "Description:", "Dialogue:", "a"}

\* Every sequence over S of length at most n.
SeqsUpTo(S, n) == UNION {[1..k -> S] : k \in 0..n}

Texts == SeqsUpTo(Tok, MaxTextLen)

\* str.split('\n'): the pieces between line breaks; k+1 pieces for k breaks.
RECURSIVE SplitLines(_)
SplitLines(text) ==
  IF \A i \in 1..Len(text) : text[i] # "nl" THEN <<text>>
  ELSE LET k == CHOOSE i \in 1..Len(text) :
                   text[i] = "nl" /\ \A j \in 1..(i - 1) : text[j] # "nl"
       IN  <<SubSeq(text, 1, k - 1)>> \o SplitLines(SubSeq(text, k + 1, Len(text)))

\* str.strip(): leading and trailing blanks removed.
RECURSIVE Strip(_)
Strip(line) ==
  IF line = <<>> THEN <<>>
  ELSE IF Head(line) = "sp" THEN Strip(Tail(line))
  ELSE IF line[Len(line)] = "sp" THEN Strip(SubSeq(line, 1, Len(line) - 1))
  ELSE line

\* str.startswith(prefix)
StartsWith(line, prefix) == Len(line) > 0 /\ line[1] = prefix

\* str.replace(prefix, ''): every occurrence is removed, not only the first.
Replace(line, prefix) == SelectSeq(line, LAMBDA x : x # prefix)

(***************************************************************************)
(* GeminiService._parse_manga_panels.  A record is a function from the      *)
(* keys it has to their values; {} is the function with no key.             *)
(***************************************************************************)
EmptyDict == [k \in {} |-> <<>>]

SetKey(d, k, v) == [x \in DOMAIN d \cup {k} |-> IF x = k THEN v ELSE d[x]]

\* if current_panel: panels.append(current_panel)
FlushDropsPanel(panels, current_panel) == panels

Flush(panels, current_panel) ==
  IF DOMAIN current_panel # {} THEN Append(panels, current_panel) ELSE panels

\* current_panel = {"panel_number": line}
NewPanelWithEmptyFields(line) ==
  [k \in {"panel_number", "title", "description", "dialogue"} |->
     IF k = "panel_number" THEN line ELSE <<>>]

NewPanel(line) == SetKey(EmptyDict, "panel_number", line)

\* One iteration of `for line in lines`; st = [panels, current_panel].
ParseLine(st, rawline) ==
  LET line == Strip(rawline) IN
  IF StartsWith(line, "[PANEL")
    THEN [panels |-> Flush(st.panels, st.current_panel),
          current_panel |-> NewPanel(line)]
  ELSE IF StartsWith(line, "Title:")
    THEN [st EXCEPT !.current_panel =
            SetKey(@, "title", Strip(Replace(line, "Title:")))]
  ELSE IF StartsWith(line, "Description:")
    THEN [st EXCEPT !.current_panel =
            SetKey(@, "description", Strip(Replace(line, "Description:")))]
  ELSE IF StartsWith(line, "Dialogue:")
    THEN [st EXCEPT !.current_panel =
            SetKey(@, "dialogue", Strip(Replace(line, "Dialogue:")))]
  ELSE st

RECURSIVE ParseLines(_, _)
ParseLines(st, lines) ==
  IF lines = <<>> THEN st ELSE ParseLines(ParseLine(st, Head(lines)), Tail(lines))

\* The whole call; nothing in it raises for a text.
ParseRejectsFieldWithoutPanel(text) ==
  LET lines == SplitLines(text)
      st == ParseLines([panels |-> <<>>, current_panel |-> EmptyDict], lines)
      all == Flush(st.panels, st.current_panel)
  IN  IF \E i \in 1..Len(all) : "panel_number" \notin DOMAIN all[i]
        THEN <<[exception |-> "KeyError"]>>
        ELSE all

parse_manga_panels(text) ==
  LET st == ParseLines([panels |-> <<>>, current_panel |-> EmptyDict], SplitLines(text))
  IN  Flush(st.panels, st.current_panel)

(***************************************************************************)
(* Bounds of the pipeline model.                                            *)
(***************************************************************************)
MaxPapers   == 2    \* distinct papers a search can link to
MaxLinks    == 2    \* links in one scrape result
MaxFigs     == 2    \* figures the parsing service returns for one document
MaxRequests == 2    \* HTTP requests served in one behaviour
NumWorkers  == 2    \* server processes whose requests may overlap (SpecConc)

Papers == 1..MaxPapers
Slots  == 1..NumWorkers

\* pdf_links[:5] in scrape_and_upload
ScrapeLimit == 5

Take(s, n) == SubSeq(s, 1, IF n < Len(s) THEN n ELSE Len(s))

SeqToSet(s) == {s[i] : i \in 1..Len(s)}

(***************************************************************************)
(* State.  The stores (object storage and the two tables) are shared; the   *)
(* rest is local to the request a slot is serving.  Every request of a      *)
(* behaviour is for the same email, topic and date, so one bucket path      *)
(* {email}/{topic}/{date} is modelled and a document under it is named by   *)
(* its paper id; (email, topic, file_name) is then decided by file_name.    *)
(***************************************************************************)
VARIABLES
  narrative, parsed, ppc,   \* the parser check: input, output, position
  call,           \* a service function applied on its own: its name and arguments
  out,            \* that function's locals and, in the end, what it returned
  documents,      \* documents bucket: names of the objects under the path
  images,         \* reducto-images bucket: path -> bytes
  bundles,        \* panels bucket: the narrative bundles stored
  requests,       \* table recommendation_requests: rows [id, file_name]
  pairings_tbl,   \* table recommendation_pairings: rows [request_id, image_path, figure_content]
  next_id,        \* the store's id generator
  nreq,           \* requests received so far
  entry,          \* per slot: the endpoint being served, "none" when idle
  pc,             \* per slot: position in the handler
  sc,             \* per slot: locals of scrape_and_upload
  rc,             \* per slot: locals of create_recommendation
  mg,             \* per slot: locals of generate_manga_and_send
  sb,             \* per slot: locals of process_subscription
  ret,            \* per slot: what the last stage handler returned or raised
  resp            \* per slot: the HTTP response of the request

pvars  == <<narrative, parsed, ppc, call, out>>
stores == <<documents, images, bundles, requests, pairings_tbl, next_id>>
locals == <<sc, rc, mg, sb>>
vars   == <<narrative, parsed, ppc, call, out, documents, images, bundles, requests,
            pairings_tbl, next_id, nreq, entry, pc, sc, rc, mg, sb, ret, resp>>

NoValue == [status |-> 0, body |-> EmptyDict]

\* raise HTTPException(status_code, detail)
HTTPException(status, detail) == [status |-> status, body |-> [detail |-> detail]]

\* raise HTTPException(status_code=404, ...), passed on by `except HTTPException: raise`
NotFoundBecomes500(detail) == HTTPException(500, detail)

NotFound(detail) == HTTPException(404, detail)

\* return <response model>
Returned(body) == [status |-> 200, body |-> body]

ScInit == [pdf_links |-> <<>>, li |-> 0, uploaded_files |-> <<>>, errors |-> <<>>,
           \* history, not read by the handler:
           last_upload |-> EmptyDict, \* the last upload and the store's answer
           reused |-> {}]             \* paths listed after a duplicate error

RcInit == [max_files |-> 0, pdf_files |-> <<>>, fi |-> 0, figure_counter |-> 0,
           file_recommendations |-> <<>>, already_processed |-> FALSE,
           reducto_pairings |-> <<>>, request_id |-> 0,
           db_pairings |-> <<>>, response_pairings |-> <<>>, pi |-> 0,
           \* history, not read by the handler:
           reprocessed |-> {},        \* documents that had a row when checked
           parse_failed |-> {},       \* documents for which process_pdf raised
           last_upload |-> EmptyDict, \* the last figure upload and the store's answer
           reused |-> {},             \* figure paths kept after a duplicate error
           attempted |-> <<>>,        \* the figure uploads of the run: [n, outcome]
           lost |-> {}]               \* documents given up after their rows were deleted

MgInit == [max_files |-> 0, pdf_files |-> <<>>, fi |-> 0, all_figures |-> <<>>,
           narrative |-> <<>>, panels |-> <<>>, panel_images |-> <<>>,
           panel_image_urls |-> <<>>, qi |-> 0,
           email_result |-> EmptyDict, phase |-> "start",
           \* history, not read by the handler:
           collided |-> {}]   \* panels whose upload met an existing object

SbInit == [uploaded_count |-> 0, uploaded_files |-> <<>>,
           files_processed |-> 0, total_figures |-> 0,
           stages |-> <<>>]   \* history: the stage handlers called so far

(***************************************************************************)
(* The stores.                                                              *)
(***************************************************************************)
\* The name of a stored document: {paper_id}.pdf
InPath(name) == <<"path/">> \o name

\* The name of an object under the path, from its full path.
BaseName(file_path) == Tail(file_path)

PdfName(paper) == InPath(<<paper, ".pdf">>)

\* str.endswith(suffix)
EndsWith(name, suffix) == Len(name) > 0 /\ name[Len(name)] = suffix

\* storage list(path): the objects under the path, by name.
RECURSIVE SortedNames(_)
SortedNames(S) ==
  IF S = {} THEN <<>>
  ELSE LET m == CHOOSE x \in S : \A y \in S : x[1] <= y[1]
       IN  <<m>> \o SortedNames(S \ {m})

\* What storage list(path) can answer: the listing, or a failure.
ListAnswers ==
  {[ok |-> FALSE, names |-> <<>>], [ok |-> TRUE, names |-> SortedNames(documents)]}

\* SupabaseDB.list_files_in_path: f"{path}/{name}" for the names that end in
\* .pdf, in the order of the listing; [] when the storage call raises.
ListsEveryEntry(answer) ==
  IF ~answer.ok THEN <<>>
  ELSE [i \in 1..Len(answer.names) |-> InPath(answer.names[i])]

list_files_in_path(answer) ==
  IF ~answer.ok THEN <<>>
  ELSE LET pdfs == SelectSeq(answer.names, LAMBDA name : EndsWith(name, ".pdf"))
       IN  [i \in 1..Len(pdfs) |-> InPath(pdfs[i])]

\* The substrings of an upload error's text that the handlers look for.  An
\* error text is the set of these it contains.
ConflictAnswer == {"409", "Duplicate", "already exists"}

ConflictTexts == {ConflictAnswer, {"409"}, {"Duplicate"}, {"already exists"}, {"duplicate"}}

OtherFailure == {}

\* What storage upload(path, bytes) can answer: "ok" when the path is free,
\* a conflict when it is occupied, another failure at any time.
UploadAnswers(occupied) ==
  IF occupied THEN {[ok |-> FALSE, text |-> t] : t \in ConflictTexts \cup {OtherFailure}}
  ELSE {[ok |-> TRUE, text |-> {}], [ok |-> FALSE, text |-> OtherFailure]}

\* if "409" in error_str or "Duplicate" in error_str or "already exists" in error_str
IsDuplicateMissesAlreadyExists(text) == "409" \in text \/ "Duplicate" \in text

IsDuplicateError(text) ==
  "409" \in text \/ "Duplicate" \in text \/ "already exists" \in text

FigurePath(n) == <<"figure", n>>
PanelPath(n)  == <<"panel", n>>

\* SupabaseDB.get_public_url
get_public_url(path) == <<"url", path>>

\* SupabaseDB.check_file_already_processed
check_file_already_processed(file_name) ==
  \E row \in requests : row.file_name = file_name

\* SupabaseDB.delete_existing_recommendation; the pairings go by cascade.
DeleteLeavesRows(file_name) == requests

RequestsAfterDelete(file_name) == {row \in requests : row.file_name # file_name}

PairingsAfterDelete(file_name) ==
  {p \in pairings_tbl :
     \E row \in RequestsAfterDelete(file_name) : row.id = p.request_id}

\* SupabaseDB.insert_recommendation_pairings
PairingRows(request_id, pairings) ==
  {[request_id |-> request_id,
    figure_content |-> pairings[i].figure_content,
    image_path |-> pairings[i].image_path] : i \in 1..Len(pairings)}

(***************************************************************************)
(* Requests.                                                                *)
(***************************************************************************)
Idle(r) == entry[r] = "none"

FirstPc(kind) ==
  CASE kind = "scrape" -> "sc_scrape"
    [] kind = "rec"    -> "rec_list"
    [] kind = "manga"  -> "mg_list"
    [] kind = "sub"    -> "sub_start"

\* A request arrives at slot r; max_files comes with the request body.
Start(r, kind, max_files) ==
  /\ Idle(r)
  /\ nreq < MaxRequests
  /\ nreq' = nreq + 1
  /\ entry' = [entry EXCEPT ![r] = kind]
  /\ pc' = [pc EXCEPT ![r] = FirstPc(kind)]
  /\ rc' = [rc EXCEPT ![r] = [RcInit EXCEPT !.max_files = max_files]]
  /\ mg' = [mg EXCEPT ![r] = [MgInit EXCEPT !.max_files = max_files]]
  /\ UNCHANGED <<pvars, stores, sc, sb, ret, resp>>

\* A stage handler returns or raises: to the client when the stage is the
\* endpoint, to process_subscription when it was called from there.
AfterStage(r, stage) ==
  IF entry[r] = "sub" THEN "sub_after_" \o stage ELSE "done"

StageEnds(r, stage, value) ==
  /\ ret' = [ret EXCEPT ![r] = value]
  /\ resp' = [resp EXCEPT ![r] = IF entry[r] = "sub" THEN @ ELSE value]
  /\ pc' = [pc EXCEPT ![r] = AfterStage(r, stage)]

\* The response has been sent; the slot is free again.
Finish(r) ==
  /\ pc[r] = "done"
  /\ entry' = [entry EXCEPT ![r] = "none"]
  /\ pc' = [pc EXCEPT ![r] = "idle"]
  /\ sc' = [sc EXCEPT ![r] = ScInit]
  /\ rc' = [rc EXCEPT ![r] = RcInit]
  /\ mg' = [mg EXCEPT ![r] = MgInit]
  /\ sb' = [sb EXCEPT ![r] = SbInit]
  /\ ret' = [ret EXCEPT ![r] = NoValue]
  /\ resp' = [resp EXCEPT ![r] = NoValue]
  /\ UNCHANGED <<pvars, stores, nreq>>

(***************************************************************************)
(* POST /scraper/scrape-and-upload  (scrape_and_upload)                     *)
(***************************************************************************)
\* A link of the scraped page: whether it is a PDF link ("/pdf/" in link or
\* link.endswith(".pdf")) and the paper its last path segment names.
Links == {[pdf |-> TRUE, paper |-> p] : p \in Papers} \cup {[pdf |-> FALSE, paper |-> 1]}

ScrapeAnswers ==
  {[ok |-> FALSE, links |-> <<>>]} \cup
  {[ok |-> TRUE, links |-> l] : l \in SeqsUpTo(Links, MaxLinks)}

\* firecrawl.scrape, the filter for PDF links and the cut to the first five.
ScrapeLinks(r) ==
  /\ pc[r] = "sc_scrape"
  /\ \E answer \in ScrapeAnswers :
       LET pdf_links == SelectSeq(answer.links, LAMBDA l : l.pdf) IN
       IF ~answer.ok
         THEN /\ StageEnds(r, "scrape", HTTPException(500, "scrape failed"))
              /\ UNCHANGED sc
       ELSE IF pdf_links = <<>>
         THEN /\ StageEnds(r, "scrape", NotFound("No PDF links found"))
              /\ UNCHANGED sc
       ELSE /\ sc' = [sc EXCEPT ![r] =
                        [ScInit EXCEPT !.pdf_links = Take(pdf_links, ScrapeLimit), !.li = 1]]
            /\ pc' = [pc EXCEPT ![r] = "sc_loop"]
            /\ UNCHANGED <<ret, resp>>
  /\ UNCHANGED <<pvars, stores, nreq, entry, rc, mg, sb>>

\* One iteration of `for idx, pdf_url in enumerate(pdf_links, 1)`: download
\* the PDF, upload it to the documents bucket, list it.
ScrapeOne(r) ==
  /\ pc[r] = "sc_loop"
  /\ sc[r].li <= Len(sc[r].pdf_links)
  /\ LET paper == sc[r].pdf_links[sc[r].li].paper
         file_path == PdfName(paper)
         failed == [sc[r] EXCEPT !.li = @ + 1, !.errors = Append(@, paper),
                               !.last_upload = EmptyDict]
     IN
     \/ \* requests.get fails or raise_for_status raises
        /\ sc' = [sc EXCEPT ![r] = failed]
        /\ UNCHANGED documents
     \/ \E answer \in UploadAnswers(BaseName(file_path) \in documents) :
          LET listed == answer.ok \/ IsDuplicateError(answer.text)
              log == [file_path |-> file_path, ok |-> answer.ok, text |-> answer.text,
                      before |-> Len(sc[r].uploaded_files)]
          IN
          /\ documents' = IF answer.ok THEN documents \cup {BaseName(file_path)} ELSE documents
          /\ sc' = [sc EXCEPT ![r] =
                      IF listed
                        THEN [@ EXCEPT !.li = @ + 1,
                                       !.uploaded_files = Append(@, file_path),
                                       !.last_upload = log,
                                       !.reused = IF answer.ok THEN @ ELSE @ \cup {file_path}]
                        ELSE [failed EXCEPT !.last_upload = log]]
  /\ UNCHANGED <<pvars, images, bundles, requests, pairings_tbl, next_id,
                 nreq, entry, pc, rc, mg, sb, ret, resp>>

\* return UploadResponse(...)
UploadResponse(uploaded_files, errors) ==
  [success |-> Len(uploaded_files) > 0,
   uploaded_count |-> Len(uploaded_files),
   files |-> uploaded_files,
   errors |-> errors]

ScrapeReturn(r) ==
  /\ pc[r] = "sc_loop"
  /\ sc[r].li > Len(sc[r].pdf_links)
  /\ StageEnds(r, "scrape", Returned(UploadResponse(sc[r].uploaded_files, sc[r].errors)))
  /\ sc' = [sc EXCEPT ![r] = [@ EXCEPT !.last_upload = EmptyDict]]
  /\ UNCHANGED <<pvars, stores, nreq, entry, rc, mg, sb>>

(***************************************************************************)
(* POST /recommendations  (create_recommendation)                           *)
(***************************************************************************)
\* What ReductoService.process_pdf can give for a document: it raises, or it
\* returns 0..MaxFigs pairings; the k-th figure of paper p has caption and
\* bytes <<p, k>>.
Pairing(file_name, k) ==
  [figure_content |-> <<file_name[2], k>>, image_data |-> <<file_name[2], k>>]

ReductoAnswers(file_name) ==
  {[ok |-> FALSE, pairings |-> <<>>]} \cup
  {[ok |-> TRUE, pairings |-> [k \in 1..n |-> Pairing(file_name, k)]] : n \in 0..MaxFigs}

CurFile(r) == rc[r].pdf_files[rc[r].fi]

\* `continue` in the loop over pdf_files: on to the next document.
NextFileRestartsCounter(l) ==
  [l EXCEPT !.fi = @ + 1, !.last_upload = EmptyDict, !.figure_counter = 1]

NextFile(l) == [l EXCEPT !.fi = @ + 1, !.last_upload = EmptyDict]

\* `continue` between the delete of the old rows and the insert of the new
\* one: the document is given up for this run.
GiveUp(l, file_name) ==
  NextFile([l EXCEPT !.lost = IF l.already_processed THEN @ \cup {file_name} ELSE @])

\* except Exception around process_pdf: print and `continue`.
ParseFailedStillListed(l, file_name) ==
  GiveUp([l EXCEPT !.parse_failed = @ \cup {file_name},
                   !.file_recommendations =
                      Append(@, [file_name |-> file_name, pairings |-> <<>>])],
         file_name)

ParseFailed(l, file_name) ==
  GiveUp([l EXCEPT !.parse_failed = @ \cup {file_name}], file_name)

\* pdf_files = list_files_in_path(bucket_path); 404 when empty; [:max_files]
RecList(r) ==
  /\ pc[r] = "rec_list"
  /\ \E answer \in ListAnswers :
       LET pdf_files == list_files_in_path(answer) IN
       IF pdf_files = <<>>
         THEN /\ StageEnds(r, "extract", NotFound("No PDF files found"))
              /\ UNCHANGED rc
         ELSE /\ rc' = [rc EXCEPT ![r] =
                          [@ EXCEPT !.pdf_files = Take(pdf_files, rc[r].max_files),
                                    !.fi = 1, !.figure_counter = 1]]
              /\ pc' = [pc EXCEPT ![r] = "rec_check"]
              /\ UNCHANGED <<ret, resp>>
  /\ UNCHANGED <<pvars, stores, nreq, entry, sc, mg, sb>>

\* already_processed = await check_file_already_processed(...)
RecCheck(r) ==
  /\ pc[r] = "rec_check"
  /\ rc[r].fi <= Len(rc[r].pdf_files)
  /\ \/ LET found == check_file_already_processed(CurFile(r)) IN
        /\ rc' = [rc EXCEPT ![r] =
                    [@ EXCEPT !.already_processed = found,
                              !.reprocessed = IF found THEN @ \cup {CurFile(r)} ELSE @]]
        /\ pc' = [pc EXCEPT ![r] = IF found THEN "rec_delete" ELSE "rec_download"]
     \/ \* the query raises: except Exception -> continue
        /\ rc' = [rc EXCEPT ![r] = NextFile(@)]
        /\ UNCHANGED pc
  /\ UNCHANGED <<pvars, stores, nreq, entry, sc, mg, sb, ret, resp>>

\* await delete_existing_recommendation(...)
RecDelete(r) ==
  /\ pc[r] = "rec_delete"
  /\ \/ /\ requests' = RequestsAfterDelete(CurFile(r))
        /\ pairings_tbl' = PairingsAfterDelete(CurFile(r))
        /\ pc' = [pc EXCEPT ![r] = "rec_download"]
        /\ UNCHANGED rc
     \/ \* the delete raises: except Exception -> continue
        /\ rc' = [rc EXCEPT ![r] = NextFile(@)]
        /\ pc' = [pc EXCEPT ![r] = "rec_check"]
        /\ UNCHANGED <<requests, pairings_tbl>>
  /\ UNCHANGED <<pvars, documents, images, bundles, next_id, nreq, entry,
                 sc, mg, sb, ret, resp>>

\* pdf_bytes = download_pdf(file_path)
RecDownload(r) ==
  /\ pc[r] = "rec_download"
  /\ \/ /\ pc' = [pc EXCEPT ![r] = "rec_process"]
        /\ UNCHANGED rc
     \/ /\ rc' = [rc EXCEPT ![r] = GiveUp(@, CurFile(r))]
        /\ pc' = [pc EXCEPT ![r] = "rec_check"]
  /\ UNCHANGED <<pvars, stores, nreq, entry, sc, mg, sb, ret, resp>>

\* reducto_result = await process_pdf(...); `continue` without figures
RecProcess(r) ==
  /\ pc[r] = "rec_process"
  /\ \E answer \in ReductoAnswers(CurFile(r)) :
       IF ~answer.ok
         THEN /\ rc' = [rc EXCEPT ![r] = ParseFailed(@, CurFile(r))]
              /\ pc' = [pc EXCEPT ![r] = "rec_check"]
       ELSE IF answer.pairings = <<>>
         THEN /\ rc' = [rc EXCEPT ![r] = GiveUp(@, CurFile(r))]
              /\ pc' = [pc EXCEPT ![r] = "rec_check"]
       ELSE /\ rc' = [rc EXCEPT ![r] = [@ EXCEPT !.reducto_pairings = answer.pairings]]
            /\ pc' = [pc EXCEPT ![r] = "rec_insert"]
  /\ UNCHANGED <<pvars, stores, nreq, entry, sc, mg, sb, ret, resp>>

\* request_id = await insert_recommendation_request(...)
RecInsertRequest(r) ==
  /\ pc[r] = "rec_insert"
  /\ \/ /\ requests' = requests \cup {[id |-> next_id, file_name |-> CurFile(r)]}
        /\ next_id' = next_id + 1
        /\ rc' = [rc EXCEPT ![r] =
                    [@ EXCEPT !.request_id = next_id, !.db_pairings = <<>>,
                              !.response_pairings = <<>>, !.pi = 1]]
        /\ pc' = [pc EXCEPT ![r] = "rec_upload"]
     \/ /\ rc' = [rc EXCEPT ![r] = GiveUp(@, CurFile(r))]
        /\ pc' = [pc EXCEPT ![r] = "rec_check"]
        /\ UNCHANGED <<requests, next_id>>
  /\ UNCHANGED <<pvars, documents, images, bundles, pairings_tbl, nreq, entry,
                 sc, mg, sb, ret, resp>>

\* One iteration of `for pairing in reducto_pairings`: upload the image to
\* figure_{figure_counter}.png; on a duplicate error go on with the existing
\* object; any other error skips the figure.  The counter advances either way.
RecUpload(r) ==
  /\ pc[r] = "rec_upload"
  /\ rc[r].pi <= Len(rc[r].reducto_pairings)
  /\ LET pairing == rc[r].reducto_pairings[rc[r].pi]
         n == rc[r].figure_counter
         image_path == FigurePath(n)
     IN
     \E answer \in UploadAnswers(image_path \in DOMAIN images) :
       LET kept == answer.ok \/ IsDuplicateError(answer.text)
           log == [n |-> n, image_path |-> image_path, ok |-> answer.ok,
                   text |-> answer.text, pairing |-> pairing,
                   before |-> Len(rc[r].db_pairings)]
       IN
       /\ images' = IF answer.ok THEN SetKey(images, image_path, pairing.image_data)
                    ELSE images
       /\ rc' = [rc EXCEPT ![r] =
                   [@ EXCEPT
                      !.db_pairings =
                         IF kept THEN Append(@, [figure_content |-> pairing.figure_content,
                                                 image_path |-> image_path])
                         ELSE @,
                      !.response_pairings =
                         IF kept THEN Append(@, [figure_content |-> pairing.figure_content,
                                                 image_url |-> get_public_url(image_path)])
                         ELSE @,
                      !.figure_counter = @ + 1,
                      !.pi = @ + 1,
                      !.last_upload = log,
                      !.reused = IF kept /\ ~answer.ok THEN @ \cup {image_path} ELSE @,
                      !.attempted =
                         Append(@, [n |-> n,
                                    outcome |-> IF answer.ok THEN "uploaded"
                                                ELSE IF kept THEN "conflict"
                                                ELSE "failed"])]]
  /\ UNCHANGED <<pvars, documents, bundles, requests, pairings_tbl, next_id,
                 nreq, entry, pc, sc, mg, sb, ret, resp>>

\* if db_pairings: await insert_recommendation_pairings(request_id, db_pairings);
\* file_recommendations.append(FileRecommendation(...))
RecInsertPairings(r) ==
  /\ pc[r] = "rec_upload"
  /\ rc[r].pi > Len(rc[r].reducto_pairings)
  /\ LET done == [NextFile(rc[r]) EXCEPT
                    !.file_recommendations =
                       Append(@, [file_name |-> CurFile(r),
                                  pairings |-> rc[r].response_pairings])]
     IN
     \/ /\ pairings_tbl' = pairings_tbl \cup
                             PairingRows(rc[r].request_id, rc[r].db_pairings)
        /\ rc' = [rc EXCEPT ![r] = done]
     \/ \* the insert raises: except Exception -> continue
        /\ rc[r].db_pairings # <<>>
        /\ rc' = [rc EXCEPT ![r] = NextFile(@)]
        /\ UNCHANGED pairings_tbl
  /\ pc' = [pc EXCEPT ![r] = "rec_check"]
  /\ UNCHANGED <<pvars, documents, images, bundles, requests, next_id, nreq,
                 entry, sc, mg, sb, ret, resp>>

\* return RecommendationResponse(...): the fields of the response model.
RecommendationResponse(file_recommendations) ==
  [email |-> "email", topic |-> "topic", date |-> "date",
   total_files_processed |-> Len(file_recommendations),
   files |-> file_recommendations]

\* After the loop: 500 when no file was processed, else the response.
RecReturn(r) ==
  /\ pc[r] = "rec_check"
  /\ rc[r].fi > Len(rc[r].pdf_files)
  /\ StageEnds(r, "extract",
       IF rc[r].file_recommendations = <<>>
         THEN HTTPException(500, "Failed to process any files successfully")
         ELSE Returned(RecommendationResponse(rc[r].file_recommendations)))
  /\ UNCHANGED <<pvars, stores, nreq, entry, sc, rc, mg, sb>>

(***************************************************************************)
(* POST /manga  (generate_manga_and_send)                                   *)
(***************************************************************************)
\* Texts the generative service may answer with: no panel at all, one
\* panel, two panels, and a field line ahead of the first marker.
NarrativeSamples ==
  { <<"a">>,
    <<"[PANEL", "nl", "Title:", "a">>,
    <<"[PANEL", "a", "nl", "Dialogue:", "a", "nl", "[PANEL">>,
    <<"Title:", "a", "nl", "[PANEL">> }

None == <<"None">>

\* dict.get(key, default)
Get(d, k, default) == IF k \in DOMAIN d THEN d[k] ELSE default

\* manga_panels = [MangaPanel(...) for i, panel in enumerate(panels, 1)]
MangaPanels(panels) ==
  [i \in 1..Len(panels) |->
     [panel_number |-> Get(panels[i], "panel_number", <<"Panel", i>>),
      title        |-> Get(panels[i], "title", None),
      description  |-> Get(panels[i], "description", None),
      dialogue     |-> Get(panels[i], "dialogue", None)]]

\* PanelGenerator.create_all_panels: the panels whose rendering raises
\* (broken) are skipped, the others keep their place and their index.
RECURSIVE RenderUntilFailure(_, _, _)
RenderUntilFailure(panels, broken, i) ==
  IF i > Len(panels) \/ i \in broken THEN <<>>
  ELSE << [panel_number |-> i,
           title |-> Get(panels[i], "title", None),
           image_data |-> <<"png", i>>] >>
       \o RenderUntilFailure(panels, broken, i + 1)

RECURSIVE RenderFrom(_, _, _)
RenderFrom(panels, broken, i) ==
  IF i > Len(panels) THEN <<>>
  ELSE (IF i \in broken THEN <<>>
        ELSE << [panel_number |-> i,
                 title |-> Get(panels[i], "title", None),
                 image_data |-> <<"png", i>>] >>)
       \o RenderFrom(panels, broken, i + 1)

create_all_panels(panels, broken) == RenderFrom(panels, broken, 1)

\* ResendService._build_manga_html, the part that builds panels_html: the
\* blocks appended to it, in order.  An image block has the URL of the panel
\* image; a text card has the title (default "Panel i"), the description
\* (default empty) and, when the dialogue is a non-empty text, the dialogue.
ImageBlock(i, panel_img) ==
  [kind |-> "image", src |-> Get(panel_img, "url", <<>>), alt |-> i]

TextCard(i, panel) ==
  LET dialogue == Get(panel, "dialogue", <<>>)
      card == [kind |-> "card",
               title |-> Get(panel, "title", <<"Panel", i>>),
               description |-> Get(panel, "description", <<>>)]
  IN  IF dialogue # <<>> THEN SetKey(card, "dialogue", dialogue) ELSE card

PanelsHtmlWithBothForms(panels, panel_images_base64) ==
  [i \in 1..Len(panel_images_base64) |-> ImageBlock(i, panel_images_base64[i])]
  \o [i \in 1..Len(panels) |-> TextCard(i, panels[i])]

panels_html(panels, panel_images_base64) ==
  IF Len(panel_images_base64) > 0
    THEN [i \in 1..Len(panel_images_base64) |-> ImageBlock(i, panel_images_base64[i])]
    ELSE [i \in 1..Len(panels) |-> TextCard(i, panels[i])]

\* ResendService.send_manga_email.  fault names the step that fails: loading
\* an asset (the avatar, the logo: caught where it happens, a warning only),
\* encoding an attachment, building the HTML, or the call of the email
\* service.  The whole body is inside try/except Exception, which returns
\* the failure as a value.
EmailFaults == {"none", "asset", "encode", "html", "send"}

SendPropagatesEncodeError(fault) ==
  IF fault \in {"none", "asset"}
    THEN [raised |-> FALSE, value |-> [success |-> TRUE, email_id |-> <<"id">>]]
  ELSE IF fault = "encode" THEN [raised |-> TRUE, value |-> EmptyDict]
  ELSE [raised |-> FALSE, value |-> [success |-> FALSE, error |-> fault]]

send_manga_email(fault) ==
  IF fault \in {"none", "asset"}
    THEN [raised |-> FALSE, value |-> [success |-> TRUE, email_id |-> <<"id">>]]
    ELSE [raised |-> FALSE, value |-> [success |-> FALSE, error |-> fault]]

MgList(r) ==
  /\ pc[r] = "mg_list"
  /\ \E answer \in ListAnswers :
       LET pdf_files == list_files_in_path(answer) IN
       IF pdf_files = <<>>
         THEN /\ StageEnds(r, "narrate", NotFound("No PDF files found"))
              /\ UNCHANGED mg
         ELSE /\ mg' = [mg EXCEPT ![r] =
                          [@ EXCEPT !.pdf_files = Take(pdf_files, mg[r].max_files),
                                    !.fi = 1, !.phase = "figures"]]
              /\ pc' = [pc EXCEPT ![r] = "mg_file"]
              /\ UNCHANGED <<ret, resp>>
  /\ UNCHANGED <<pvars, stores, nreq, entry, sc, rc, sb>>

\* One iteration of `for file_path in pdf_files`: download, process_pdf,
\* all_figures.extend(reducto_pairings); any failure skips the document.
MgFile(r) ==
  /\ pc[r] = "mg_file"
  /\ mg[r].fi <= Len(mg[r].pdf_files)
  /\ \/ \* download_pdf raises
        mg' = [mg EXCEPT ![r] = [@ EXCEPT !.fi = @ + 1]]
     \/ \E answer \in ReductoAnswers(mg[r].pdf_files[mg[r].fi]) :
          mg' = [mg EXCEPT ![r] =
                   [@ EXCEPT !.fi = @ + 1,
                             !.all_figures = IF answer.ok THEN @ \o answer.pairings ELSE @]]
  /\ UNCHANGED <<pvars, stores, nreq, entry, pc, sc, rc, sb, ret, resp>>

\* 404 without figures; generate_manga_from_figures (500 when it raises);
\* the panels are the parse of the narrative.
MgGenerate(r) ==
  /\ pc[r] = "mg_file"
  /\ mg[r].fi > Len(mg[r].pdf_files)
  /\ IF mg[r].all_figures = <<>>
       THEN /\ StageEnds(r, "narrate", HTTPException(404, "No figures could be extracted"))
            /\ UNCHANGED mg
       ELSE \/ /\ StageEnds(r, "narrate", HTTPException(500, "Failed to generate manga narrative"))
               /\ UNCHANGED mg
            \/ \E text \in NarrativeSamples :
                 /\ mg' = [mg EXCEPT ![r] =
                             [@ EXCEPT !.narrative = text,
                                       !.panels = parse_manga_panels(text),
                                       !.phase = "generated"]]
                 /\ pc' = [pc EXCEPT ![r] = "mg_render"]
                 /\ UNCHANGED <<ret, resp>>
  /\ UNCHANGED <<pvars, stores, nreq, entry, sc, rc, sb>>

\* panel_images = panel_generator.create_all_panels(panels, corgi_path)
MgRender(r) ==
  /\ pc[r] = "mg_render"
  /\ \E broken \in SUBSET (1..Len(mg[r].panels)) :
       mg' = [mg EXCEPT ![r] =
                [@ EXCEPT !.panel_images = create_all_panels(mg[r].panels, broken)]]
  /\ pc' = [pc EXCEPT ![r] = "mg_bundle"]
  /\ UNCHANGED <<pvars, stores, nreq, entry, sc, rc, sb, ret, resp>>

\* upload_manga_panels(manga_panels_{timestamp}.json); when it raises, the
\* uploads of the panel images are skipped with it.
MgBundle(r) ==
  /\ pc[r] = "mg_bundle"
  /\ \/ /\ bundles' = bundles \cup {nreq}
        /\ mg' = [mg EXCEPT ![r] = [@ EXCEPT !.qi = 1]]
        /\ pc' = [pc EXCEPT ![r] = "mg_png"]
     \/ /\ pc' = [pc EXCEPT ![r] = "mg_email"]
        /\ UNCHANGED <<bundles, mg>>
  /\ UNCHANGED <<pvars, documents, images, requests, pairings_tbl, next_id,
                 nreq, entry, sc, rc, sb, ret, resp>>

\* One iteration of `for panel_img in panel_images`: upload_image to
\* panel_{n}.png; any exception skips the panel.
MgPng(r) ==
  /\ pc[r] = "mg_png"
  /\ mg[r].qi <= Len(mg[r].panel_images)
  /\ LET panel_img == mg[r].panel_images[mg[r].qi]
         img_path == PanelPath(panel_img.panel_number)
     IN
     \E answer \in UploadAnswers(img_path \in DOMAIN images) :
       /\ images' = IF answer.ok THEN SetKey(images, img_path, panel_img.image_data)
                    ELSE images
       /\ mg' = [mg EXCEPT ![r] =
                   [@ EXCEPT
                      !.qi = @ + 1,
                      !.collided = IF ~answer.ok /\ IsDuplicateError(answer.text)
                                   THEN @ \cup {panel_img.panel_number} ELSE @,
                      !.panel_image_urls =
                         IF answer.ok
                           THEN Append(@, [panel_number |-> panel_img.panel_number,
                                           url |-> get_public_url(img_path),
                                           image_data |-> panel_img.image_data])
                           ELSE @]]
  /\ UNCHANGED <<pvars, documents, bundles, requests, pairings_tbl, next_id,
                 nreq, entry, pc, sc, rc, sb, ret, resp>>

MgPngDone(r) ==
  /\ pc[r] = "mg_png"
  /\ mg[r].qi > Len(mg[r].panel_images)
  /\ pc' = [pc EXCEPT ![r] = "mg_email"]
  /\ UNCHANGED <<pvars, stores, nreq, entry, sc, rc, mg, sb, ret, resp>>

\* return MangaGenerationResponse(...)
MangaGenerationResponse(l, email_sent, email_id) ==
  [email |-> "email", topic |-> "topic",
   narrative |-> l.narrative,
   panels |-> MangaPanels(l.panels),
   figures_used |-> Len(l.all_figures),
   email_sent |-> email_sent,
   email_id |-> email_id]

\* email_result = await send_manga_email(...), read with .get; an exception
\* of the call leaves email_sent False and email_id None.
MgEmail(r) ==
  /\ pc[r] = "mg_email"
  /\ \E fault \in EmailFaults :
       LET email_result == send_manga_email(fault)
           email_sent == IF email_result.raised THEN FALSE
                         ELSE Get(email_result.value, "success", FALSE)
           email_id == IF email_result.raised THEN None
                       ELSE Get(email_result.value, "email_id", None)
       IN
       /\ mg' = [mg EXCEPT ![r] =
                   [@ EXCEPT !.email_result = [fault |-> fault, result |-> email_result],
                             !.phase = "mailed"]]
       /\ StageEnds(r, "narrate",
            Returned(MangaGenerationResponse(mg[r], email_sent, email_id)))
  /\ UNCHANGED <<pvars, stores, nreq, entry, sc, rc, sb>>

(***************************************************************************)
(* POST /subscribe  (process_subscription)                                  *)
(***************************************************************************)
\* scrape_result = await scrape_and_upload(search_params)
SubStart(r) ==
  /\ pc[r] = "sub_start"
  /\ sb' = [sb EXCEPT ![r] = [SbInit EXCEPT !.stages = <<"scrape">>]]
  /\ pc' = [pc EXCEPT ![r] = "sc_scrape"]
  /\ UNCHANGED <<pvars, stores, nreq, entry, sc, rc, mg, ret, resp>>

\* Step 1 fails when scrape_and_upload raised, or
\* `not scrape_result.success or scrape_result.uploaded_count == 0`.
ScrapeStepFailedOnlyOnRaise(value) == value.status # 200

ScrapeStepFailed(value) ==
  \/ value.status # 200
  \/ ~value.body.success
  \/ value.body.uploaded_count = 0

\* Step 2 fails when create_recommendation raised, or
\* `recommendation_result.total_files_processed == 0`.
ExtractStepFailed(value) ==
  \/ value.status # 200
  \/ value.body.total_files_processed = 0

\* After step 1: raise 500, or keep uploaded_count and files and call
\* create_recommendation with max_files=1.
SubAfterScrape(r) ==
  /\ pc[r] = "sub_after_scrape"
  /\ IF ScrapeStepFailed(ret[r])
       THEN /\ resp' = [resp EXCEPT ![r] = HTTPException(500, "PDF scraping failed")]
            /\ pc' = [pc EXCEPT ![r] = "done"]
            /\ UNCHANGED <<sb, rc, sc, ret>>
       ELSE /\ sb' = [sb EXCEPT ![r] =
                        [@ EXCEPT !.uploaded_count = ret[r].body.uploaded_count,
                                  !.uploaded_files = ret[r].body.files,
                                  !.stages = Append(@, "extract")]]
            /\ rc' = [rc EXCEPT ![r] = [RcInit EXCEPT !.max_files = 1]]
            /\ sc' = [sc EXCEPT ![r] = ScInit]
            /\ ret' = [ret EXCEPT ![r] = NoValue]
            /\ pc' = [pc EXCEPT ![r] = "rec_list"]
            /\ UNCHANGED resp
  /\ UNCHANGED <<pvars, stores, nreq, entry, mg>>

RECURSIVE SumPairings(_)
SumPairings(files) ==
  IF files = <<>> THEN 0 ELSE Len(Head(files).pairings) + SumPairings(Tail(files))

\* After step 2: raise 500, or keep the counts and call
\* generate_manga_and_send with max_files=1.
SubAfterExtract(r) ==
  /\ pc[r] = "sub_after_extract"
  /\ IF ExtractStepFailed(ret[r])
       THEN /\ resp' = [resp EXCEPT ![r] = HTTPException(500, "Reducto processing failed")]
            /\ pc' = [pc EXCEPT ![r] = "done"]
            /\ UNCHANGED <<sb, mg, rc, ret>>
       ELSE /\ sb' = [sb EXCEPT ![r] =
                        [@ EXCEPT !.files_processed = ret[r].body.total_files_processed,
                                  !.total_figures = SumPairings(ret[r].body.files),
                                  !.stages = Append(@, "narrate")]]
            /\ mg' = [mg EXCEPT ![r] = [MgInit EXCEPT !.max_files = 1]]
            /\ rc' = [rc EXCEPT ![r] = RcInit]
            /\ ret' = [ret EXCEPT ![r] = NoValue]
            /\ pc' = [pc EXCEPT ![r] = "mg_list"]
            /\ UNCHANGED resp
  /\ UNCHANGED <<pvars, stores, nreq, entry, sc>>

\* The "step_3_manga" part of the summary; manga_result is None when
\* generate_manga_and_send raised.
Step3SummaryCompletedOnResult(value) ==
  LET has_result == value.status = 200 IN
  [status |-> IF has_result THEN "completed" ELSE "failed",
   email_sent |-> IF has_result THEN value.body.email_sent ELSE FALSE,
   email_id |-> IF has_result THEN value.body.email_id ELSE None,
   panels_generated |-> IF has_result THEN Len(value.body.panels) ELSE 0]

Step3Summary(value) ==
  LET has_result == value.status = 200 IN
  [status |-> IF has_result /\ value.body.email_sent THEN "completed" ELSE "failed",
   email_sent |-> IF has_result THEN value.body.email_sent ELSE FALSE,
   email_id |-> IF has_result THEN value.body.email_id ELSE None,
   panels_generated |-> IF has_result THEN Len(value.body.panels) ELSE 0]

\* The aggregate result of the pipeline.
Summary(l, manga_value) ==
  [success |-> TRUE,
   step_1_scraping |->
     [status |-> "completed",
      pdfs_uploaded |-> l.uploaded_count,
      files |-> l.uploaded_files],
   step_2_processing |->
     [status |-> "completed",
      files_processed |-> l.files_processed,
      figures_extracted |-> l.total_figures],
   step_3_manga |-> Step3Summary(manga_value)]

\* After step 3: whatever it did, return the summary.
SubAfterNarrate(r) ==
  /\ pc[r] = "sub_after_narrate"
  /\ resp' = [resp EXCEPT ![r] = Returned(Summary(sb[r], ret[r]))]
  /\ pc' = [pc EXCEPT ![r] = "done"]
  /\ UNCHANGED <<pvars, stores, nreq, entry, sc, rc, mg, sb, ret>>


(***************************************************************************)
(* Service functions applied on their own, to every bounded argument.       *)
(***************************************************************************)
MaxListing == 3     \* entries in a storage listing
MaxPanels  == 2     \* panel records given to the renderer and the HTML builder

\* Sequences over S of length at most n without a repeated element.
DistinctSeqs(S, n) ==
  {s \in SeqsUpTo(S, n) : \A i, j \in 1..Len(s) : i # j => s[i] # s[j]}

\* Names a listing can hold: PDFs, another file, an upper-case extension,
\* a folder.
EntryNames ==
  {<<"a", ".pdf">>, <<"b", ".txt">>, <<"c", ".pdf">>, <<"d", ".PDF">>, <<"e">>}

ListCalls ==
  {[name |-> "list_files_in_path", answer |-> [ok |-> ok, names |-> names]] :
     ok \in BOOLEAN, names \in DistinctSeqs(EntryNames, MaxListing)}

\* Panel records as the parser makes them: complete, marker only, with an
\* empty dialogue, without a marker.
PanelSamples ==
  {[panel_number |-> <<"[PANEL">>, title |-> <<"a">>, description |-> <<"a">>,
    dialogue |-> <<"a">>],
   [panel_number |-> <<"[PANEL">>],
   [panel_number |-> <<"[PANEL">>, title |-> <<"a">>, dialogue |-> <<>>],
   [description |-> <<"a">>]}

PanelSeqs == SeqsUpTo(PanelSamples, MaxPanels)

RenderCalls ==
  {[name |-> "create_all_panels", panels |-> panels, broken |-> broken] :
     panels \in PanelSeqs, broken \in SUBSET (1..MaxPanels)}

\* panel_images_base64 as send_manga_email builds it: a list, empty when no
\* panel image was given, of the encoded images with their 'url' ('' when
\* the image has none).
PanelImageSamples ==
  {[panel_number |-> i, base64 |-> <<"b64", i>>,
    url |-> IF known THEN get_public_url(PanelPath(i)) ELSE <<>>] :
     i \in 1..MaxPanels, known \in BOOLEAN}

HtmlCalls ==
  {[name |-> "_build_manga_html", panels |-> panels, panel_images_base64 |-> imgs] :
     panels \in PanelSeqs,
     imgs \in DistinctSeqs(PanelImageSamples, MaxPanels)}

\* What applying a service function leaves alone.
others == <<narrative, parsed, ppc, call, stores, nreq, entry, pc, locals, ret, resp>>

CallList ==
  /\ call.name = "list_files_in_path"
  /\ out = EmptyDict
  /\ out' = [returned |-> list_files_in_path(call.answer)]
  /\ UNCHANGED others

CallRender ==
  /\ call.name = "create_all_panels"
  /\ out = EmptyDict
  /\ out' = [returned |->
               create_all_panels(call.panels, call.broken \cap (1..Len(call.panels)))]
  /\ UNCHANGED others

CallHtml ==
  /\ call.name = "_build_manga_html"
  /\ out = EmptyDict
  /\ out' = [returned |-> panels_html(call.panels, call.panel_images_base64)]
  /\ UNCHANGED others

(***************************************************************************)
(* ReductoService.process_pdf from the parse response on: the polling loop  *)
(* and the extraction.  A response of the service is its "status" ("none"   *)
(* when it has no such key) and the number of figures in its "result" (0    *)
(* when it has no result).                                                  *)
(***************************************************************************)
max_retries == 30

Statuses == {"none", "processing", "completed", "failed"}

ServiceData == [status : Statuses, figures : 0..MaxFigs]

\* The blocks of a result: [type, content] and, for a figure that has one,
\* image_url.  What a download of an image URL gives is fixed by the URL.
MaxBlocks == 3      \* blocks in a result, over all its chunks

BlockSamples ==
  {[type |-> "Title", content |-> <<"sp">>],
   [type |-> "Title", content |-> <<"T1">>],
   [type |-> "Text", content |-> <<"A">>],
   [type |-> "Figure", content |-> <<"cap">>, image_url |-> <<"u", "a">>],
   [type |-> "Figure", content |-> <<"sp">>, image_url |-> <<"u", "a">>],
   [type |-> "Figure", content |-> <<>>, image_url |-> <<"u", "raise">>],
   [type |-> "Figure", content |-> <<>>, image_url |-> <<"u", "404">>],
   [type |-> "Figure", content |-> <<"cap">>, image_url |-> <<"u", "empty">>],
   [type |-> "Figure", content |-> <<"cap">>]}

\* The blocks s as two chunks, the first of k blocks.
Split(s, k) ==
  LET n == IF k > Len(s) THEN Len(s) ELSE k
  IN  <<SubSeq(s, 1, n), SubSeq(s, n + 1, Len(s))>>

\* The chunks of a result: none, one chunk, or two (either can be empty).
ChunkSeqs ==
  {<<>>} \cup {<<s>> : s \in SeqsUpTo(BlockSamples, MaxBlocks)}
         \cup {Split(s, k) : s \in SeqsUpTo(BlockSamples, MaxBlocks), k \in 0..MaxBlocks}

\* A parse response is either a status with some figures, or a finished
\* result with its chunks.
PdfCalls ==
  {[name |-> "process_pdf", parse_data |-> d] : d \in ServiceData}
    \cup {[name |-> "process_pdf", parse_data |-> [status |-> "none", chunks |-> c]] :
            c \in ChunkSeqs}

\* if "status" in parse_data and parse_data["status"] == "processing"
NeedsPolling(parse_data) == parse_data.status = "processing"

\* One pass of `for _ in range(max_retries)`: the status request and the
\* test of its answer; l = [parse_data, polls, last_status, pc].
AfterPollNeverBreaks(l, status_data) ==
  [l EXCEPT !.polls = @ + 1,
            !.last_status = status_data,
            !.parse_data = IF status_data.status = "completed" THEN status_data ELSE @]

AfterPoll(l, status_data) ==
  [l EXCEPT !.polls = @ + 1,
            !.last_status = status_data,
            !.parse_data = IF status_data.status = "completed" THEN status_data ELSE @,
            !.pc = IF status_data.status = "completed" THEN "extract" ELSE @]

\* requests.get(image_url, timeout=30): raised, or status_code and content.
ImageAt(image_url) ==
  CASE image_url[2] = "raise" -> [raised |-> TRUE]
    [] image_url[2] = "404"   -> [raised |-> FALSE, status_code |-> 404, content |-> <<>>]
    [] image_url[2] = "empty" -> [raised |-> FALSE, status_code |-> 200, content |-> <<>>]
    [] OTHER -> [raised |-> FALSE, status_code |-> 200,
                 content |-> <<"png", image_url[2]>>]

\* f"Figure {figure_counter}"
FigureLabel(figure_counter) == <<"Figure", ToString(figure_counter)>>

\* Python truth of a string, of bytes or of None.
Truthy(v) == v # None /\ v # <<>>

\* result = parse_data.get("result", {}); chunks = result.get("chunks", []):
\* n figures of a status answer are n figure blocks without content whose
\* images download.
FigureChunks(n) ==
  IF n = 0 THEN <<>>
  ELSE << [i \in 1..n |->
             [type |-> "Figure", content |-> <<>>, image_url |-> <<"u", ToString(i)>>]] >>

Result(parse_data) ==
  IF "chunks" \in DOMAIN parse_data THEN parse_data.chunks
  ELSE FigureChunks(parse_data.figures)

\* First pass, the blocks of one chunk from block i on; l = [title, authors].
\* The first "Title" block met while title is not yet truthy sets title and,
\* when the next block of the chunk is "Text", authors, and ends the chunk.
RECURSIVE TitleInBlocks(_, _, _)
TitleInBlocks(blocks, i, l) ==
  IF i > Len(blocks) THEN l
  ELSE IF blocks[i].type = "Title" /\ ~Truthy(l.title)
  THEN [title |-> Strip(blocks[i].content),
        authors |-> IF i + 1 <= Len(blocks) /\ blocks[i + 1].type = "Text"
                    THEN Strip(blocks[i + 1].content)
                    ELSE l.authors]
  ELSE TitleInBlocks(blocks, i + 1, l)

\* The chunks in order, until title and authors are both truthy.
RECURSIVE TitleInChunks(_, _)
TitleInChunks(chunks, l) ==
  IF chunks = <<>> THEN l
  ELSE LET after == TitleInBlocks(Head(chunks), 1, l) IN
       IF Truthy(after.title) /\ Truthy(after.authors) THEN after
       ELSE TitleInChunks(Tail(chunks), after)

\* Second pass, one block; l = [pairings, figure_counter].
FigureBlockCountsFailure(l, block) ==
  IF block.type # "Figure" THEN l
  ELSE
    LET stripped == Strip(block.content)
        figure_content == IF Truthy(stripped) THEN stripped
                          ELSE FigureLabel(l.figure_counter)
        image_url == Get(block, "image_url", None)
        img_response == IF Truthy(image_url) THEN ImageAt(image_url)
                        ELSE [raised |-> TRUE]
        image_data == IF ~img_response.raised /\ img_response.status_code = 200
                      THEN img_response.content ELSE None
    IN IF Truthy(image_data)
       THEN [pairings |-> Append(l.pairings,
                                 [figure_content |-> figure_content,
                                  image_data |-> image_data,
                                  reducto_block |-> block]),
             figure_counter |-> l.figure_counter + 1]
       ELSE [l EXCEPT !.figure_counter = @ + 1]

FigureBlock(l, block) ==
  IF block.type # "Figure" THEN l
  ELSE
    LET stripped == Strip(block.content)
        figure_content == IF Truthy(stripped) THEN stripped
                          ELSE FigureLabel(l.figure_counter)
        image_url == Get(block, "image_url", None)
        img_response == IF Truthy(image_url) THEN ImageAt(image_url)
                        ELSE [raised |-> TRUE]
        image_data == IF ~img_response.raised /\ img_response.status_code = 200
                      THEN img_response.content ELSE None
    IN IF Truthy(image_data)
       THEN [pairings |-> Append(l.pairings,
                                 [figure_content |-> figure_content,
                                  image_data |-> image_data,
                                  reducto_block |-> block]),
             figure_counter |-> l.figure_counter + 1]
       ELSE l

RECURSIVE FiguresInBlocks(_, _)
FiguresInBlocks(blocks, l) ==
  IF blocks = <<>> THEN l
  ELSE FiguresInBlocks(Tail(blocks), FigureBlock(l, Head(blocks)))

RECURSIVE FiguresInChunks(_, _)
FiguresInChunks(chunks, l) ==
  IF chunks = <<>> THEN l
  ELSE FiguresInChunks(Tail(chunks), FiguresInBlocks(Head(chunks), l))

\* The title and authors extracted from parse_data.
ExtractTitle(parse_data) ==
  TitleInChunks(Result(parse_data), [title |-> None, authors |-> None])

\* The pairings extracted from parse_data.get("result", {}).
ExtractPairings(parse_data) ==
  FiguresInChunks(Result(parse_data), [pairings |-> <<>>, figure_counter |-> 1]).pairings

\* parse_data = parse_response.json(), then the test for polling.
PdfParsed ==
  /\ call.name = "process_pdf"
  /\ out = EmptyDict
  /\ out' = [parse_data |-> call.parse_data,
             polls |-> 0,
             last_status |-> EmptyDict,
             pc |-> IF NeedsPolling(call.parse_data) THEN "poll" ELSE "extract"]
  /\ UNCHANGED others

PdfPoll ==
  /\ call.name = "process_pdf"
  /\ out # EmptyDict
  /\ out.pc = "poll"
  /\ out.polls < max_retries
  /\ \E status_data \in ServiceData : out' = AfterPoll(out, status_data)
  /\ UNCHANGED others

\* range(max_retries) is used up.
PdfPollEnd ==
  /\ call.name = "process_pdf"
  /\ out # EmptyDict
  /\ out.pc = "poll"
  /\ out.polls >= max_retries
  /\ out' = [out EXCEPT !.pc = "extract"]
  /\ UNCHANGED others

PdfExtract ==
  /\ call.name = "process_pdf"
  /\ out # EmptyDict
  /\ out.pc = "extract"
  /\ out' = [parse_data |-> out.parse_data,
             polls |-> out.polls,
             last_status |-> out.last_status,
             pc |-> "returned",
             returned |-> [title |-> ExtractTitle(out.parse_data).title,
                           authors |-> ExtractTitle(out.parse_data).authors,
                           pairings |-> ExtractPairings(out.parse_data)]]
  /\ UNCHANGED others

(***************************************************************************)
(* PanelGenerator.create_panel_image: where it draws.  A text is what       *)
(* textwrap splits it into, the lengths of its words and of the blanks      *)
(* between them (words without hyphens): chunks [space, len].               *)
(***************************************************************************)
panel_width  == 1200
panel_height == 800

MaxWords     == 4    \* words in a dialogue
MaxDescWords == 9    \* words in a description

WordLens == {18, 34, 35, 60, 140}

Word(n)  == [space |-> FALSE, len |-> n]
Blank(n) == [space |-> TRUE, len |-> n]

\* The words of the lengths ws, one blank between two of them.
Spaced(ws) ==
  [i \in 1..(IF ws = <<>> THEN 0 ELSE 2 * Len(ws) - 1) |->
     IF i % 2 = 1 THEN Word(ws[(i + 1) \div 2]) ELSE Blank(1)]

RECURSIVE TextLen(_)
TextLen(chunks) == IF chunks = <<>> THEN 0 ELSE Head(chunks).len + TextLen(Tail(chunks))

\* chunk.strip() == ''
IsBlank(chunk) == chunk.space \/ chunk.len = 0

\* TextWrapper._wrap_chunks, the inner loop: chunks are put on the line
\* while they fit.
RECURSIVE Fill(_, _, _)
Fill(chunks, cur_line, width) ==
  IF chunks # <<>> /\ TextLen(cur_line) + Head(chunks).len <= width
  THEN Fill(Tail(chunks), Append(cur_line, Head(chunks)), width)
  ELSE [chunks |-> chunks, cur_line |-> cur_line]

\* TextWrapper._handle_long_word with break_long_words: the line takes as
\* much of the chunk as it has room for.
HandleLongWord(st, width) ==
  LET space_left == IF width < 1 THEN 1 ELSE width - TextLen(st.cur_line)
      chunk == Head(st.chunks)
  IN [chunks |-> <<[chunk EXCEPT !.len = @ - space_left]>> \o Tail(st.chunks),
      cur_line |-> Append(st.cur_line, [chunk EXCEPT !.len = space_left])]

\* TextWrapper._wrap_chunks: the lines, each the chunks on it.  A blank at
\* the start of a line after the first and a blank at the end of a line are
\* dropped; a line left empty is not made.
RECURSIVE WrapChunks(_, _, _)
WrapChunks(chunks, lines, width) ==
  IF chunks = <<>> THEN lines
  ELSE
    LET start == IF IsBlank(Head(chunks)) /\ lines # <<>> THEN Tail(chunks) ELSE chunks
        filled == Fill(start, <<>>, width)
        broken == IF filled.chunks # <<>> /\ Head(filled.chunks).len > width
                  THEN HandleLongWord(filled, width) ELSE filled
        cur_line == IF broken.cur_line # <<>>
                       /\ IsBlank(broken.cur_line[Len(broken.cur_line)])
                    THEN SubSeq(broken.cur_line, 1, Len(broken.cur_line) - 1)
                    ELSE broken.cur_line
    IN WrapChunks(broken.chunks,
                  IF cur_line # <<>> THEN Append(lines, cur_line) ELSE lines, width)

\* textwrap.wrap(text, width)
wrap(text, width) == WrapChunks(text, <<>>, width)

\* The dialogues: none given, the empty string, blanks only, words.
DialogueSamples ==
  {<<>>, <<Blank(140)>>} \cup
  {Spaced(ws) : ws \in SeqsUpTo(WordLens, MaxWords) \ {<<>>}}

\* The descriptions: words that fill a line of 80 each.
DescriptionSamples == {Spaced([i \in 1..n |-> 80]) : n \in 0..MaxDescWords}

PanelImageCalls ==
  {[name |-> "create_panel_image", description |-> d] : d \in DescriptionSamples}
    \cup {[name |-> "create_panel_image", description |-> d, dialogue |-> g] :
            d \in DescriptionSamples, g \in DialogueSamples}

\* The description lines drawn: description_lines[:8]
Take8(lines) == SubSeq(lines, 1, IF Len(lines) < 8 THEN Len(lines) ELSE 8)

\* What create_panel_image draws below the heading: the description lines
\* from y 210 on, 40 apart, and, `if dialogue`, the callout box 20 below
\* them with a text line every 35 from 55 below its top.
DrawsBoxForNone(description, has_dialogue, dialogue) ==
  LET drawn == Take8(wrap(description, 80))
      dialogue_box_y == 40 + 60 + 80 + 30 + 40 * Len(drawn) + 20
      dialogue_lines == wrap(dialogue, 70)
  IN [description_lines |-> drawn, box |-> TRUE,
      dialogue_box_y |-> dialogue_box_y,
      dialogue_lines |-> dialogue_lines,
      dialogue_height |-> Len(dialogue_lines) * 35 + 60,
      box_right |-> 40 + (panel_width - 80),
      text_y |-> [i \in 1..Len(dialogue_lines) |-> dialogue_box_y + 55 + 35 * (i - 1)]]

create_panel_image(description, has_dialogue, dialogue) ==
  LET drawn == Take8(wrap(description, 80))
      dialogue_box_y == 40 + 60 + 80 + 30 + 40 * Len(drawn) + 20
      dialogue_lines == wrap(dialogue, 70)
  IN IF has_dialogue /\ TextLen(dialogue) > 0
     THEN [description_lines |-> drawn, box |-> TRUE,
           dialogue_box_y |-> dialogue_box_y,
           dialogue_lines |-> dialogue_lines,
           dialogue_height |-> Len(dialogue_lines) * 35 + 60,
           box_right |-> 40 + (panel_width - 80),
           text_y |-> [i \in 1..Len(dialogue_lines) |-> dialogue_box_y + 55 + 35 * (i - 1)]]
     ELSE [description_lines |-> drawn, box |-> FALSE]

CallPanelImage ==
  /\ call.name = "create_panel_image"
  /\ out = EmptyDict
  /\ out' = [returned |->
               create_panel_image(call.description, "dialogue" \in DOMAIN call,
                                  Get(call, "dialogue", <<>>))]
  /\ UNCHANGED others
(***************************************************************************)
(* Specifications.                                                          *)
(***************************************************************************)
NoCall == [name |-> "none"]

ParserIdle == narrative = <<>> /\ parsed = <<>> /\ ppc = "idle"

CallsIdle == call = NoCall /\ out = EmptyDict

PipelineIdle ==
  /\ images = EmptyDict
  /\ bundles = {}
  /\ requests = {}
  /\ pairings_tbl = {}
  /\ next_id = 1
  /\ nreq = 0
  /\ entry = [r \in Slots |-> "none"]
  /\ pc = [r \in Slots |-> "idle"]
  /\ sc = [r \in Slots |-> ScInit]
  /\ rc = [r \in Slots |-> RcInit]
  /\ mg = [r \in Slots |-> MgInit]
  /\ sb = [r \in Slots |-> SbInit]
  /\ ret = [r \in Slots |-> NoValue]
  /\ resp = [r \in Slots |-> NoValue]

\* The parser applied to every text of at most MaxTextLen tokens.
InitParser ==
  /\ narrative \in Texts /\ parsed = <<>> /\ ppc = "call"
  /\ CallsIdle /\ documents = {} /\ PipelineIdle

Parse ==
  /\ ppc = "call"
  /\ parsed' = parse_manga_panels(narrative)
  /\ ppc' = "returned"
  /\ UNCHANGED <<narrative, call, out, stores, nreq, entry, pc, sc, rc, mg, sb, ret, resp>>

NextParser == Parse

SpecParser == InitParser /\ [][NextParser]_vars

\* The endpoints, one request at a time, from empty stores.
Init == ParserIdle /\ CallsIdle /\ documents = {} /\ PipelineIdle

Scrape(r) == ScrapeLinks(r) \/ ScrapeOne(r) \/ ScrapeReturn(r)

Extract(r) ==
  \/ RecList(r) \/ RecCheck(r) \/ RecDelete(r) \/ RecDownload(r) \/ RecProcess(r)
  \/ RecInsertRequest(r) \/ RecUpload(r) \/ RecInsertPairings(r) \/ RecReturn(r)

Narrate(r) ==
  \/ MgList(r) \/ MgFile(r) \/ MgGenerate(r) \/ MgRender(r) \/ MgBundle(r)
  \/ MgPng(r) \/ MgPngDone(r) \/ MgEmail(r)

Subscribe(r) == SubStart(r) \/ SubAfterScrape(r) \/ SubAfterExtract(r) \/ SubAfterNarrate(r)

\* app.include_router(...) in main.py: the routers the application mounts.
IncludedRouters == {"scraper", "recommendations", "manga"}

\* The POST routes the four router modules declare, the handler of each and
\* the max_files a request can carry.
PostRoutes ==
  {[path |-> "/scraper/scrape-and-upload", router |-> "scraper", kind |-> "scrape"],
   [path |-> "/recommendations", router |-> "recommendations", kind |-> "rec"],
   [path |-> "/manga", router |-> "manga", kind |-> "manga"],
   [path |-> "/subscribe", router |-> "subscriptions", kind |-> "sub"]}

MaxFilesOf(kind) == IF kind \in {"rec", "manga"} THEN 1..MaxPapers ELSE {0}

\* A request for a path no mounted router declares: the framework answers
\* 404 Not Found and no handler runs.
NotRouted(r, path) ==
  /\ Idle(r)
  /\ nreq < MaxRequests
  /\ nreq' = nreq + 1
  /\ entry' = [entry EXCEPT ![r] = path]
  /\ pc' = [pc EXCEPT ![r] = "done"]
  /\ resp' = [resp EXCEPT ![r] = HTTPException(404, "Not Found")]
  /\ UNCHANGED <<pvars, stores, locals, ret>>

\* POST path arrives at the application.
Post(r, route) ==
  IF route.router \in IncludedRouters
    THEN \E m \in MaxFilesOf(route.kind) : Start(r, route.kind, m)
    ELSE NotRouted(r, route.path)

\* A request arrives over HTTP, or process_subscription is called as a
\* function (no mounted route leads to it).
Arrive(r) ==
  \/ \E route \in PostRoutes : Post(r, route)
  \/ Start(r, "sub", 1)

Next == Arrive(1) \/ Scrape(1) \/ Extract(1) \/ Narrate(1) \/ Subscribe(1) \/ Finish(1)

Spec == Init /\ [][Next]_vars

\* POST /recommendations requests on several slots, their store calls
\* interleaved, on a bucket that holds the PDF of paper 1.
InitConc ==
  ParserIdle /\ CallsIdle /\ documents = {BaseName(PdfName(1))} /\ PipelineIdle

NextConc == \E r \in Slots : Start(r, "rec", 1) \/ Extract(r) \/ Finish(r)

SpecConc == InitConc /\ [][NextConc]_vars


InitCalls ==
  /\ ParserIdle
  /\ call \in ListCalls \cup RenderCalls \cup HtmlCalls \cup PdfCalls \cup PanelImageCalls
  /\ out = EmptyDict
  /\ documents = {}
  /\ PipelineIdle

NextCalls ==
  CallList \/ CallRender \/ CallHtml \/ CallPanelImage \/ PdfParsed \/ PdfPoll \/ PdfPollEnd \/ PdfExtract

SpecCalls == InitCalls /\ [][NextCalls]_vars

\* process_pdf alone, from a parse response that is a status with some
\* figures.  Every request to the service returns: a step that can be taken
\* is taken.
InitPoll ==
  /\ ParserIdle
  /\ call \in {c \in PdfCalls : "figures" \in DOMAIN c.parse_data}
  /\ out = EmptyDict
  /\ documents = {}
  /\ PipelineIdle

NextPoll == PdfParsed \/ PdfPoll \/ PdfPollEnd \/ PdfExtract

SpecPollFair == InitPoll /\ [][NextPoll]_vars /\ WF_vars(NextPoll)
(***************************************************************************)
(* C1.                                                                      *)
(***************************************************************************)
IsField(line) ==
  \/ StartsWith(line, "Title:")
  \/ StartsWith(line, "Description:")
  \/ StartsWith(line, "Dialogue:")

\* The lines of a text that, trimmed, begin with the marker, in text order.
MarkerLines(text) ==
  LET ls == SplitLines(text)
      trimmed == [i \in 1..Len(ls) |-> Strip(ls[i])]
  IN  SelectSeq(trimmed, LAMBDA l : StartsWith(l, "[PANEL"))

\* Well-formed: every field line belongs to a block, i.e. no field line
\* stands before the first marker line.
WellFormed(text) ==
  LET ls == SplitLines(text) IN
  \A i \in 1..Len(ls) :
    IsField(Strip(ls[i])) =>
      \E j \in 1..(i - 1) : StartsWith(Strip(ls[j]), "[PANEL")

\* C1: for a well-formed text with K marker lines the parser returns exactly
\* K records, and the i-th record carries the i-th marker line.
C1_RecordPerMarker ==
  (ppc = "returned" /\ WellFormed(narrative)) =>
     /\ Len(parsed) = Len(MarkerLines(narrative))
     /\ \A i \in 1..Len(parsed) :
          /\ "panel_number" \in DOMAIN parsed[i]
          /\ parsed[i]["panel_number"] = MarkerLines(narrative)[i]

\* Two blocks with different marker lines, the first with a field, parsed.
C1_Witness ==
  /\ ppc = "returned"
  /\ WellFormed(narrative)
  /\ Len(MarkerLines(narrative)) = 2
  /\ MarkerLines(narrative)[1] # MarkerLines(narrative)[2]
  /\ Len(parsed) = 2
  /\ "title" \in DOMAIN parsed[1]


(***************************************************************************)
(* The stages' ends.  A handler has ended when its value is in ret: at      *)
(* "done" for a direct request, at process_subscription's next step for a   *)
(* call from the pipeline.                                                  *)
(***************************************************************************)
ExtractEnded(r) ==
  \/ entry[r] = "rec" /\ pc[r] = "done"
  \/ pc[r] = "sub_after_extract"

NarrateEnded(r) ==
  \/ entry[r] = "manga" /\ pc[r] = "done"
  \/ pc[r] = "sub_after_narrate"

RowsOf(file_name) == {row \in requests : row.file_name = file_name}

FileNames == {PdfName(p) : p \in Papers}

\* C2: when a create_recommendation run ends, every document it found
\* already processed (a request row existed for its key) has exactly one
\* request row.  The code deletes the old row before it downloads and parses
\* the document, so a run that fails after the delete leaves no row.
C2_ExactlyOneRowAfterReprocessing ==
  \A r \in Slots :
    ExtractEnded(r) =>
      \A f \in rc[r].reprocessed : Cardinality(RowsOf(f)) = 1

\* C3: in every state at most one request row exists per file name.  Two
\* overlapping runs for one key both pass the check before either inserts.
C3_AtMostOneRowPerKey ==
  \A f \in FileNames : Cardinality(RowsOf(f)) <= 1

(***************************************************************************)
(* C4.  The classification is written out here a second time, from the      *)
(* claim, so that it is compared with the code's and not defined by it.     *)
(***************************************************************************)
ClaimedConflict(text) ==
  "409" \in text \/ "duplicate" \in text \/ "already exists" \in text

CaseSensitiveConflict(text) ==
  "409" \in text \/ "Duplicate" \in text \/ "already exists" \in text

Last(s) == s[Len(s)]

\* The scrape stage lists the path of its last upload.
ScrapeListed(r) ==
  /\ Len(sc[r].uploaded_files) = sc[r].last_upload.before + 1
  /\ Last(sc[r].uploaded_files) = sc[r].last_upload.file_path

\* The extract stage keeps the pairing of its last figure upload for the
\* pairings table and for the response, with the public URL of the path.
ExtractKept(r) ==
  LET log == rc[r].last_upload IN
  /\ Len(rc[r].db_pairings) = log.before + 1
  /\ Last(rc[r].db_pairings) =
       [figure_content |-> log.pairing.figure_content, image_path |-> log.image_path]
  /\ Len(rc[r].response_pairings) = log.before + 1
  /\ Last(rc[r].response_pairings) =
       [figure_content |-> log.pairing.figure_content,
        image_url |-> get_public_url(log.image_path)]

\* Every pairing of a returned file is a row of the pairings table under a
\* request row of that file.
ReturnedArePersisted(r) ==
  ret[r].status = 200 =>
    \A i \in 1..Len(ret[r].body.files) :
      LET f == ret[r].body.files[i] IN
      \A j \in 1..Len(f.pairings) :
        \E row \in pairings_tbl :
          /\ get_public_url(row.image_path) = f.pairings[j].image_url
          /\ row.figure_content = f.pairings[j].figure_content
          /\ \E q \in requests : q.id = row.request_id /\ q.file_name = f.file_name

\* C4 as stated: an upload error whose text contains "409", "duplicate" or
\* "already exists" does not fail the caller.
C4_ConflictNeverFails ==
  \A r \in Slots :
    /\ (sc[r].last_upload # EmptyDict /\ ~sc[r].last_upload.ok
          /\ ClaimedConflict(sc[r].last_upload.text)) => ScrapeListed(r)
    /\ (rc[r].last_upload # EmptyDict /\ ~rc[r].last_upload.ok
          /\ ClaimedConflict(rc[r].last_upload.text)) => ExtractKept(r)

\* C4: an upload error whose text contains "409", "Duplicate" (capital D) or
\* "already exists" is treated as a success: scrape lists the path, extract
\* keeps the pairing with the public URL of the path, and the pairings a run
\* returns are the ones it persisted.  Any other error text, a lower-case
\* "duplicate" included, fails that upload.
C4_DuplicateErrorIsReuse ==
  \A r \in Slots :
    /\ (sc[r].last_upload # EmptyDict /\ ~sc[r].last_upload.ok) =>
         (CaseSensitiveConflict(sc[r].last_upload.text) <=> ScrapeListed(r))
    /\ (rc[r].last_upload # EmptyDict /\ ~rc[r].last_upload.ok) =>
         (CaseSensitiveConflict(rc[r].last_upload.text) <=> ExtractKept(r))
    /\ ExtractEnded(r) => ReturnedArePersisted(r)

\* A run of the extract stage has ended with a response that holds the URL
\* of a figure path whose upload reported "already exists".
C4_Witness ==
  \E r \in Slots :
    /\ ExtractEnded(r)
    /\ ret[r].status = 200
    /\ \E path \in rc[r].reused :
         \E i \in 1..Len(ret[r].body.files) :
           \E j \in 1..Len(ret[r].body.files[i].pairings) :
             ret[r].body.files[i].pairings[j].image_url = get_public_url(path)

(***************************************************************************)
(* C5.                                                                      *)
(***************************************************************************)
ReturnedFileNames(r) ==
  {ret[r].body.files[i].file_name : i \in 1..Len(ret[r].body.files)}

\* The documents this run carried through to the end of the loop body.
StoredFiles(r) ==
  {f \in SeqToSet(rc[r].pdf_files) :
     \E i \in 1..Len(rc[r].file_recommendations) :
       rc[r].file_recommendations[i].file_name = f}

\* C5 as stated: the other documents are returned, the failed one is absent,
\* and the result records the failure as an error.
C5_FailureRecordedInResult ==
  \A r \in Slots :
    (ExtractEnded(r) /\ rc[r].parse_failed # {} /\ ret[r].status = 200) =>
      /\ ReturnedFileNames(r) = StoredFiles(r)
      /\ ReturnedFileNames(r) \cap rc[r].parse_failed = {}
      /\ "errors" \in DOMAIN ret[r].body

\* C5: a run in which the parsing service failed for a document and another
\* document was processed answers 200 with exactly the processed documents;
\* the failed document is absent, and the response has no field for errors
\* (its fields are email, topic, date, total_files_processed and files).
C5_FailedDocumentOnlyDropped ==
  \A r \in Slots :
    (ExtractEnded(r) /\ rc[r].parse_failed # {}) =>
      /\ ret[r].status = 200 <=> rc[r].file_recommendations # <<>>
      /\ ret[r].status = 200 =>
           /\ ReturnedFileNames(r) = StoredFiles(r)
           /\ ReturnedFileNames(r) \cap rc[r].parse_failed = {}
           /\ ret[r].body.total_files_processed = Len(ret[r].body.files)
           /\ DOMAIN ret[r].body =
                {"email", "topic", "date", "total_files_processed", "files"}

\* Two documents: the parsing service failed for the first, the second is
\* returned.
C5_Witness ==
  \E r \in Slots :
    /\ ExtractEnded(r)
    /\ ret[r].status = 200
    /\ Len(rc[r].pdf_files) = 2
    /\ rc[r].parse_failed = {rc[r].pdf_files[1]}
    /\ ReturnedFileNames(r) = {rc[r].pdf_files[2]}

(***************************************************************************)
(* C6, C7: process_subscription.                                            *)
(***************************************************************************)
StageOrder == <<"scrape", "extract", "narrate">>

IsPrefix(s, t) == Len(s) <= Len(t) /\ \A i \in 1..Len(s) : s[i] = t[i]

ScrapePcs  == {"sc_scrape", "sc_loop", "sub_after_scrape"}
ExtractPcs == {"rec_list", "rec_check", "rec_delete", "rec_download", "rec_process",
               "rec_insert", "rec_upload", "sub_after_extract"}
NarratePcs == {"mg_list", "mg_file", "mg_render", "mg_bundle", "mg_png", "mg_email",
               "sub_after_narrate"}

\* C6: the stages process_subscription has invoked are a prefix of Scrape,
\* Extract, Narrate, and the handler that is running is the last of them;
\* Extract has been invoked only with a scrape result of at least one
\* uploaded file, Narrate only with an extract result of at least one
\* processed file; a run that ended with an error stopped at the stage that
\* failed.
C6_StagesInOrder ==
  \A r \in Slots :
    entry[r] = "sub" /\ pc[r] # "sub_start" =>
      LET stages == sb[r].stages IN
      /\ stages # <<>>
      /\ IsPrefix(stages, StageOrder)
      /\ pc[r] \in ScrapePcs  => Len(stages) = 1
      /\ pc[r] \in ExtractPcs => Len(stages) = 2
      /\ pc[r] \in NarratePcs => Len(stages) = 3
      /\ Len(stages) >= 2 => sb[r].uploaded_count >= 1 /\ sb[r].uploaded_files # <<>>
      /\ Len(stages) >= 3 => sb[r].files_processed >= 1
      /\ (pc[r] = "done" /\ resp[r].status # 200) =>
           /\ Len(stages) < 3
           /\ ret[r].status = 200 =>
                \/ Len(stages) = 1 /\ ret[r].body.uploaded_count = 0
                \/ Len(stages) = 2 /\ ret[r].body.total_files_processed = 0

\* A pipeline run went through all three stages and answered 200.
C6_Witness ==
  \E r \in Slots :
    /\ entry[r] = "sub"
    /\ pc[r] = "done"
    /\ sb[r].stages = StageOrder
    /\ sb[r].uploaded_count >= 1
    /\ sb[r].files_processed >= 1
    /\ resp[r].status = 200

\* C7: once Scrape and Extract have succeeded, process_subscription answers
\* 200 with success true whatever generate_manga_and_send did; when that
\* raised, or returned with email_sent false, step 3 is reported "failed"
\* with email_sent false and no email id, and it is reported "completed"
\* only when the email was sent.
C7_NarrateFailureDowngraded ==
  \A r \in Slots :
    (entry[r] = "sub" /\ pc[r] = "done" /\ Len(sb[r].stages) = 3) =>
      LET raised == ret[r].status # 200
          step3 == resp[r].body.step_3_manga
      IN
      /\ resp[r].status = 200
      /\ resp[r].body.success
      /\ resp[r].body.step_1_scraping.status = "completed"
      /\ resp[r].body.step_2_processing.status = "completed"
      /\ IF raised \/ ~ret[r].body.email_sent
           THEN /\ step3.status = "failed"
                /\ ~step3.email_sent
                /\ step3.email_id = None
           ELSE /\ step3.status = "completed"
                /\ step3.email_sent

\* Narrate raised (no figures, or no narrative) and the pipeline answered 200.
C7_Witness ==
  \E r \in Slots :
    /\ entry[r] = "sub"
    /\ pc[r] = "done"
    /\ Len(sb[r].stages) = 3
    /\ ret[r].status # 200
    /\ resp[r].status = 200
    /\ resp[r].body.step_3_manga.status = "failed"

(***************************************************************************)
(* C8: send_manga_email.                                                    *)
(***************************************************************************)
\* C8 as stated: send_manga_email raises nothing, and a failure of any of
\* its steps, loading an asset included, comes back as {success: false,
\* error}, after which the narrate stage returns with email_sent false.
C8_AnyFailureReturned ==
  \A r \in Slots :
    mg[r].email_result # EmptyDict =>
      LET fault == mg[r].email_result.fault
          result == mg[r].email_result.result
      IN
      /\ ~result.raised
      /\ fault # "none" =>
           /\ ~result.value.success
           /\ "error" \in DOMAIN result.value
           /\ ret[r].status = 200
           /\ ~ret[r].body.email_sent

\* C8: send_manga_email raises nothing.  A failure to load an asset (the
\* avatar, the logo) is caught where it happens and the email is still sent;
\* a failure while encoding an attachment, building the HTML or calling the
\* email service comes back as {success: false, error}, and the narrate stage
\* then returns its response with email_sent false and no email id.
C8_SendNeverRaises ==
  \A r \in Slots :
    mg[r].email_result # EmptyDict =>
      LET fault == mg[r].email_result.fault
          result == mg[r].email_result.result
      IN
      /\ ~result.raised
      /\ fault \in {"none", "asset"} =>
           /\ result.value.success
           /\ ret[r].status = 200
           /\ ret[r].body.email_sent
      /\ fault \in {"encode", "html", "send"} =>
           /\ ~result.value.success
           /\ "error" \in DOMAIN result.value
           /\ ret[r].status = 200
           /\ ~ret[r].body.email_sent
           /\ ret[r].body.email_id = None

\* Encoding an attachment failed; POST /manga answered 200, email not sent.
C8_Witness ==
  \E r \in Slots :
    /\ entry[r] = "manga"
    /\ pc[r] = "done"
    /\ mg[r].email_result # EmptyDict
    /\ mg[r].email_result.fault = "encode"
    /\ ~mg[r].email_result.result.value.success
    /\ resp[r].status = 200
    /\ ~resp[r].body.email_sent

(***************************************************************************)
(* C9, C10: stages without input or output.                                 *)
(***************************************************************************)
\* C9: a stage without output ends in an error: extract with no processed
\* document, narrate with no figure, narrate with a narrative that parses
\* to no panel.  The code has no test for the last: it renders nothing,
\* sends the email and answers 200 with an empty list of panels.
C9_NoOutputIsAnError ==
  \A r \in Slots :
    /\ (ExtractEnded(r) /\ rc[r].file_recommendations = <<>>) => ret[r].status # 200
    /\ (NarrateEnded(r) /\ mg[r].all_figures = <<>>) => ret[r].status # 200
    /\ (NarrateEnded(r) /\ mg[r].phase # "start" /\ mg[r].panels = <<>>) =>
         ret[r].status # 200

PdfsStored == {name \in documents : EndsWith(name, ".pdf")}

\* C10: when no PDF is stored under the path, or the listing of the path
\* failed (the handler then has no file to work on), POST /recommendations
\* and POST /manga answer 404.
C10_NoPdfsIs404 ==
  \A r \in Slots :
    /\ (ExtractEnded(r) /\ (PdfsStored = {} \/ rc[r].pdf_files = <<>>)) =>
         ret[r].status = 404
    /\ (NarrateEnded(r) /\ (PdfsStored = {} \/ mg[r].pdf_files = <<>>)) =>
         ret[r].status = 404

\* POST /manga answered 404 although a PDF is stored: the listing failed.
C10_Witness ==
  \E r \in Slots :
    /\ entry[r] = "manga"
    /\ pc[r] = "done"
    /\ PdfsStored # {}
    /\ mg[r].pdf_files = <<>>
    /\ resp[r].status = 404

(***************************************************************************)
(* C11, C12, C20: the blocks of a text.                                     *)
(***************************************************************************)
TrimmedLines(text) ==
  LET ls == SplitLines(text) IN [i \in 1..Len(ls) |-> Strip(ls[i])]

IsMarker(line) == StartsWith(line, "[PANEL")

\* The index of the k-th marker line.
NthMarker(ls, k) ==
  CHOOSE j \in 1..Len(ls) :
    IsMarker(ls[j]) /\ Cardinality({m \in 1..(j - 1) : IsMarker(ls[m])}) = k - 1

\* The lines of the k-th block: after its marker line, before the next one.
BlockLines(ls, k) ==
  {j \in 1..Len(ls) :
     /\ j > NthMarker(ls, k)
     /\ \A m \in (NthMarker(ls, k) + 1)..j : ~IsMarker(ls[m])}

FieldKeys == {"title", "description", "dialogue"}

FieldPrefix(key) ==
  CASE key = "title" -> "Title:"
    [] key = "description" -> "Description:"
    [] key = "dialogue" -> "Dialogue:"

\* C11: in the record of a block, title, description and dialogue are keys
\* exactly when a line of the block begins with their prefix; a field no
\* line mentions is absent, not an empty string.
C11_UnmentionedFieldAbsent ==
  (ppc = "returned" /\ WellFormed(narrative)) =>
    LET ls == TrimmedLines(narrative) IN
    \A i \in 1..Len(parsed) :
      \A key \in FieldKeys :
        key \in DOMAIN parsed[i] <=>
          \E j \in BlockLines(ls, i) : StartsWith(ls[j], FieldPrefix(key))

\* Two blocks: the first has a title and nothing else, the second has no
\* field at all.
C11_Witness ==
  /\ ppc = "returned"
  /\ WellFormed(narrative)
  /\ Len(parsed) = 2
  /\ DOMAIN parsed[1] = {"panel_number", "title"}
  /\ DOMAIN parsed[2] = {"panel_number"}

PanelKeys == FieldKeys \cup {"panel_number"}

\* C12: for every text the parser returns a sequence of records, each with
\* at least one and only the four keys and a text for each; it returns the
\* empty sequence for a text without marker and field lines.
C12_ParserTotal ==
  ppc = "returned" =>
    LET ls == TrimmedLines(narrative) IN
    /\ \A i \in 1..Len(parsed) :
         /\ DOMAIN parsed[i] # {}
         /\ DOMAIN parsed[i] \subseteq PanelKeys
         /\ \A key \in DOMAIN parsed[i] : parsed[i][key] \in Texts
    /\ Len(parsed) <= Cardinality({j \in 1..Len(ls) : IsMarker(ls[j])}) + 1
    /\ (\A j \in 1..Len(ls) : ~IsMarker(ls[j]) /\ ~IsField(ls[j])) => parsed = <<>>

\* A text whose first line is a field line without a marker: the parser
\* returned a record that has no panel_number.
C12_Witness ==
  /\ ppc = "returned"
  /\ ~WellFormed(narrative)
  /\ Len(parsed) = 2
  /\ "panel_number" \notin DOMAIN parsed[1]
  /\ "panel_number" \in DOMAIN parsed[2]

\* The text of a field line after its prefix.
Remainder(line) == Strip(Tail(line))

\* The last line of block k that begins with the prefix of key.
LastFieldLine(ls, k, key) ==
  CHOOSE j \in BlockLines(ls, k) :
    /\ StartsWith(ls[j], FieldPrefix(key))
    /\ \A m \in BlockLines(ls, k) : StartsWith(ls[m], FieldPrefix(key)) => m <= j

\* C20: a field of a record is the remainder, after the prefix, of the last
\* line of its block that begins with the prefix.  The code removes every
\* occurrence of the prefix text from the line, so a remainder that contains
\* the prefix again loses it.
C20_FieldIsRemainder ==
  (ppc = "returned" /\ WellFormed(narrative)) =>
    LET ls == TrimmedLines(narrative) IN
    \A i \in 1..Len(parsed) :
      \A key \in FieldKeys \cap DOMAIN parsed[i] :
        parsed[i][key] = Remainder(ls[LastFieldLine(ls, i, key)])

(***************************************************************************)
(* C13, C14, C15: service functions on their own.                           *)
(***************************************************************************)
Returned_(name) == call.name = name /\ out # EmptyDict

\* The position of an entry in a listing without repetitions.
PosIn(names, n) == CHOOSE i \in 1..Len(names) : names[i] = n

C14_FailedPanelAloneOmitted ==
  Returned_("create_all_panels") =>
    LET n == Len(call.panels)
        good == {i \in 1..n : i \notin call.broken}
        res == out.returned
    IN
    /\ Len(res) = Cardinality(good)
    /\ {res[k].panel_number : k \in 1..Len(res)} = good
    /\ \A k, l \in 1..Len(res) : k < l => res[k].panel_number < res[l].panel_number
    /\ \A k \in 1..Len(res) :
         LET panel == call.panels[res[k].panel_number] IN
         /\ res[k].title = (IF "title" \in DOMAIN panel THEN panel["title"] ELSE None)
         /\ res[k].image_data # <<>>

\* Two panels, the rendering of the first raised, the second was returned.
C14_Witness ==
  /\ Returned_("create_all_panels")
  /\ Len(call.panels) = 2
  /\ call.broken = {1}
  /\ Len(out.returned) = 1
  /\ out.returned[1].panel_number = 2

\* C15: with at least one panel image the panels part of the HTML is one
\* image block per image, in order, with the image's URL; with none it is
\* one text card per panel record, in order, with the title (or "Panel i"),
\* the description, and a dialogue only if the record has one; image blocks
\* and text cards never appear together.
C15_ImagesOrCards ==
  Returned_("_build_manga_html") =>
    LET imgs == call.panel_images_base64
        html == out.returned
    IN
    /\ \A i, j \in 1..Len(html) : html[i].kind = html[j].kind
    /\ imgs # <<>> =>
         /\ Len(html) = Len(imgs)
         /\ \A i \in 1..Len(html) :
              html[i].kind = "image" /\ html[i].src = imgs[i].url
    /\ imgs = <<>> =>
         /\ Len(html) = Len(call.panels)
         /\ \A i \in 1..Len(html) :
              LET panel == call.panels[i] IN
              /\ html[i].kind = "card"
              /\ html[i].title =
                   (IF "title" \in DOMAIN panel THEN panel["title"] ELSE <<"Panel", i>>)
              /\ html[i].description =
                   (IF "description" \in DOMAIN panel THEN panel["description"] ELSE <<>>)
              /\ "dialogue" \in DOMAIN html[i] =>
                   "dialogue" \in DOMAIN panel /\ html[i]["dialogue"] = panel["dialogue"]

\* No image was given: two text cards, the first with its dialogue, the
\* second, whose record has no dialogue, without.
C15_Witness ==
  /\ Returned_("_build_manga_html")
  /\ call.panel_images_base64 = <<>>
  /\ Len(call.panels) = 2
  /\ "dialogue" \in DOMAIN call.panels[1]
  /\ "dialogue" \notin DOMAIN call.panels[2]
  /\ Len(out.returned) = 2
  /\ "dialogue" \in DOMAIN out.returned[1]
  /\ "dialogue" \notin DOMAIN out.returned[2]

(***************************************************************************)
(* C16: the routes of the application.                                      *)
(***************************************************************************)
\* C16: a POST /subscribe request to the application reaches
\* process_subscription, which starts its stages; it is not answered 404 by
\* the framework.  main.py mounts the scraper, recommendations and manga
\* routers only, so the request is answered 404 and no stage runs.
C16_SubscribeIsServed ==
  \A r \in Slots :
    (entry[r] = "/subscribe" /\ pc[r] = "done") =>
      /\ sb[r].stages # <<>>
      /\ ~(resp[r].status = 404 /\ resp[r].body.detail = "Not Found")

(***************************************************************************)
(* C17: figure_counter.                                                     *)
(***************************************************************************)
\* C17: within a create_recommendation run the figure numbers given to the
\* uploads attempted so far strictly increase, over all documents and
\* whatever the outcome of each upload, so no two of them have the same
\* figure_{n}.png path; the counter is above all of them.
C17_FigureCounterNeverReused ==
  \A r \in Slots :
    LET tried == rc[r].attempted IN
    /\ \A i, j \in 1..Len(tried) :
         i < j => /\ tried[i].n < tried[j].n
                  /\ FigurePath(tried[i].n) # FigurePath(tried[j].n)
    /\ \A i \in 1..Len(tried) : tried[i].n < rc[r].figure_counter

\* A run over two documents has ended; figures of both were attempted, one
\* upload failed and one hit a conflict.
C17_Witness ==
  \E r \in Slots :
    /\ ExtractEnded(r)
    /\ Len(rc[r].pdf_files) = 2
    /\ Len(rc[r].attempted) >= 3
    /\ \E i \in 1..Len(rc[r].attempted) : rc[r].attempted[i].outcome = "failed"
    /\ \E i \in 1..Len(rc[r].attempted) : rc[r].attempted[i].outcome = "conflict"

(***************************************************************************)
(* C18, C19: the polling loop of process_pdf.                               *)
(***************************************************************************)
InPdf == call.name = "process_pdf" /\ out # EmptyDict

PollingSafe ==
  InPdf =>
    /\ out.polls <= 30
    /\ ~NeedsPolling(call.parse_data) =>
         out.polls = 0 /\ out.parse_data = call.parse_data
    /\ (out.last_status # EmptyDict /\ out.last_status.status = "completed") =>
         out.pc # "poll" /\ out.parse_data = out.last_status
    /\ (NeedsPolling(call.parse_data) /\ out.pc \in {"extract", "returned"}) =>
         \/ out.last_status # EmptyDict /\ out.last_status.status = "completed"
         \/ out.polls = 30

\* C18: after a "processing" parse response process_pdf makes at most 30
\* status requests, makes none after the first "completed" answer, and goes
\* on after the loop only on "completed" or after the 30th request; after
\* any other parse response it makes no status request and uses that
\* response; and, every request returning, it always gets to its return.
C18_PollingBounded ==
  /\ []PollingSafe
  /\ (call.name = "process_pdf") ~> (InPdf /\ out.pc = "returned")

\* 30 status requests, none answered "completed": the loop was left and
\* process_pdf returned.
C18_Witness ==
  /\ InPdf
  /\ out.pc = "returned"
  /\ out.polls = 30
  /\ out.last_status.status = "processing"

\* C19: when the 30 status requests are used up without "completed",
\* process_pdf returns (it does not raise) the figures of the result last
\* observed from the service, and returns none only if no result arrived.
\* The code keeps the first parse response and drops every status answer
\* that is not "completed", with whatever result it carries.
C19_LastObservedResultUsed ==
  (InPdf /\ out.pc = "returned" /\ out.polls = 30
     /\ out.last_status.status # "completed") =>
    Len(out.returned.pairings) = out.last_status.figures

(***************************************************************************)
(* C21, C22: what process_pdf extracts from the blocks of a result.         *)
(***************************************************************************)
ReturnedFromChunks ==
  InPdf /\ out.pc = "returned" /\ "chunks" \in DOMAIN call.parse_data

RECURSIVE AllBlocks(_)
AllBlocks(chunks) ==
  IF chunks = <<>> THEN <<>> ELSE Head(chunks) \o AllBlocks(Tail(chunks))

\* The figure blocks whose image URL answers 200 with image bytes.
Downloads(block) ==
  /\ block.type = "Figure"
  /\ "image_url" \in DOMAIN block
  /\ block.image_url = <<"u", "a">>

\* C21: process_pdf returns one pairing per "Figure" block whose image
\* downloads, in chunk/block order, with the downloaded bytes; a figure
\* block whose download raises, answers another status than 200 or nothing,
\* or that has no image URL, yields no pairing and does not advance the
\* figure number; the k-th pairing has the block's stripped content as
\* caption, or "Figure k" when that is empty.
C21_PairingPerDownloadedFigure ==
  ReturnedFromChunks =>
    LET kept == SelectSeq(AllBlocks(call.parse_data.chunks), Downloads)
        pairings == out.returned.pairings
    IN /\ Len(pairings) = Len(kept)
       /\ \A k \in 1..Len(kept) :
            /\ pairings[k].reducto_block = kept[k]
            /\ pairings[k].image_data = <<"png", "a">>
            /\ pairings[k].figure_content =
                 (IF kept[k].content \in {<<>>, <<"sp">>}
                  THEN <<"Figure", ToString(k)>> ELSE kept[k].content)

\* A figure whose download failed, then a figure without caption that was
\* kept, and a captioned one after it.
C21_Witness ==
  /\ ReturnedFromChunks
  /\ LET blocks == AllBlocks(call.parse_data.chunks) IN
       /\ Len(blocks) = 3
       /\ blocks[1].type = "Figure" /\ ~Downloads(blocks[1])
       /\ Downloads(blocks[2]) /\ blocks[2].content = <<"sp">>
       /\ Downloads(blocks[3]) /\ blocks[3].content = <<"cap">>
  /\ Len(out.returned.pairings) = 2
  /\ out.returned.pairings[1].figure_content = <<"Figure", "1">>

HasTitle(blocks) == \E i \in 1..Len(blocks) : blocks[i].type = "Title"

\* Where the first "Title" block is: its chunk and its place in the chunk.
FirstTitle(chunks) ==
  LET k == CHOOSE k \in 1..Len(chunks) :
             HasTitle(chunks[k]) /\ \A j \in 1..(k - 1) : ~HasTitle(chunks[j])
      i == CHOOSE i \in 1..Len(chunks[k]) :
             /\ chunks[k][i].type = "Title"
             /\ \A j \in 1..(i - 1) : chunks[k][j].type # "Title"
  IN [chunk |-> k, at |-> i]

\* C22: the title is the (stripped) content of the first "Title" block in
\* chunk/block order, and the authors are the (stripped) content of the
\* block that follows that same block in its chunk when it is a "Text"
\* block, and are unset otherwise; both are unset without a "Title" block.
\* The code tests `not title`, so a first "Title" block with blank content
\* does not count as found and a later "Title" block replaces it.
C22_FirstTitleAndItsAuthors ==
  ReturnedFromChunks =>
    LET chunks == call.parse_data.chunks IN
      IF \A k \in 1..Len(chunks) : ~HasTitle(chunks[k])
      THEN out.returned.title = None /\ out.returned.authors = None
      ELSE LET blocks == chunks[FirstTitle(chunks).chunk]
               i == FirstTitle(chunks).at
           IN /\ out.returned.title = Strip(blocks[i].content)
              /\ out.returned.authors =
                   (IF i < Len(blocks) /\ blocks[i + 1].type = "Text"
                    THEN Strip(blocks[i + 1].content) ELSE None)

(***************************************************************************)
(* C23: the rows create_recommendation leaves in the two tables.            *)
(***************************************************************************)
RecPositions ==
  {"rec_list", "rec_check", "rec_delete", "rec_download", "rec_process",
   "rec_insert", "rec_upload"}

NoRecRunning == \A r \in DOMAIN pc : pc[r] \notin RecPositions

\* C23: when create_recommendation has finished, every request row it
\* inserted has at least one pairing row, also when a figure upload or the
\* insert of the pairings failed, and every pairing row carries the id of
\* the request row of its own document.  The code inserts the request row
\* before it uploads the figures and never removes it again.
C23_EveryRequestHasPairings ==
  NoRecRunning =>
    /\ \A row \in requests : \E p \in pairings_tbl : p.request_id = row.id
    /\ \A p \in pairings_tbl :
         \E row \in requests :
           row.id = p.request_id /\ row.file_name[2] = p.figure_content[1]

(***************************************************************************)
(* C24: a panel image whose path is already taken.                          *)
(***************************************************************************)
\* C24: when the upload of a rendered panel image meets an existing object
\* at panel_{n}.png, the existing object is used: the panel's public URL is
\* taken and the panel is among the panel images given to the mailer.  The
\* code treats every exception of the upload alike and skips the panel.
C24_CollidedPanelStillMailed ==
  \A r \in DOMAIN pc :
    pc[r] = "mg_email" =>
      \A n \in mg[r].collided :
        \E i \in 1..Len(mg[r].panel_image_urls) :
          /\ mg[r].panel_image_urls[i].panel_number = n
          /\ mg[r].panel_image_urls[i].url = get_public_url(PanelPath(n))

(***************************************************************************)
(* C25, C30: the callout box of create_panel_image.                         *)
(***************************************************************************)
PanelDrawn == call.name = "create_panel_image" /\ out # EmptyDict

\* The dialogue given to the call: present when it is given and not ''.
GivenDialogue == IF "dialogue" \in DOMAIN call THEN call.dialogue ELSE <<>>

\* The box is there exactly when a dialogue is, holds a text line for each
\* line textwrap makes of it at width 70, and is 35 a line plus 60 high.
BoxAsWrapped ==
  /\ out.returned.box <=> GivenDialogue # <<>>
  /\ out.returned.box =>
       /\ out.returned.dialogue_lines = wrap(GivenDialogue, 70)
       /\ Len(out.returned.text_y) = Len(out.returned.dialogue_lines)
       /\ out.returned.dialogue_height = 35 * Len(out.returned.dialogue_lines) + 60
       /\ \A i \in 1..Len(out.returned.dialogue_lines) :
            TextLen(out.returned.dialogue_lines[i]) <= 70

\* C25 as claimed: the box is drawn if and only if a dialogue is present,
\* with one text line per wrapped line at width 70 and a height of 35 times
\* the lines plus 60; every dialogue of 140 characters gives exactly 2 lines.
C25_Every140Gives2Lines ==
  PanelDrawn =>
    /\ BoxAsWrapped
    /\ TextLen(GivenDialogue) = 140 => Len(out.returned.dialogue_lines) = 2

\* C25 as amended: the same, but a dialogue of 140 characters gives exactly
\* 2 lines when it has no blank in it (it is cut after 70 characters); with
\* blanks textwrap breaks at them and drops them at the line ends.
C25_Unbroken140Gives2Lines ==
  PanelDrawn =>
    /\ BoxAsWrapped
    /\ GivenDialogue = <<Word(140)>> =>
         /\ Len(out.returned.dialogue_lines) = 2
         /\ out.returned.dialogue_height = 130

\* One word of 140 characters was drawn in a box of 2 lines.
C25_Witness ==
  /\ PanelDrawn
  /\ "dialogue" \in DOMAIN call
  /\ call.dialogue = <<Word(140)>>
  /\ out.returned.box
  /\ Len(out.returned.text_y) = 2

\* C30: what create_panel_image draws stays inside the 1200 x 800 canvas:
\* with at most 8 description lines the bottom edge of the callout box, its
\* top plus 35 a dialogue line plus 60, is never below 800, whatever the
\* length of the dialogue.  The code cuts the description to 8 lines but
\* draws every line of the dialogue.
C30_BoxInsideCanvas ==
  PanelDrawn =>
    /\ Len(out.returned.description_lines) <= 8
    /\ out.returned.box =>
         /\ out.returned.box_right <= panel_width
         /\ out.returned.dialogue_box_y + out.returned.dialogue_height <= panel_height

(***************************************************************************)
(* C26: records that no marker line opened.                                 *)
(***************************************************************************)
\* C26: every record the parser returns was opened by a marker line and
\* carries that line as its panel_number, so there are as many records as
\* marker lines; a field line before the first marker line makes no record.
\* The code starts with current_panel = {} and stores such a field in it,
\* which makes it non-empty, so it is appended like a panel.
C26_EveryRecordHasMarker ==
  ppc = "returned" =>
    /\ Len(parsed) = Len(MarkerLines(narrative))
    /\ \A i \in 1..Len(parsed) :
         /\ "panel_number" \in DOMAIN parsed[i]
         /\ parsed[i]["panel_number"] = MarkerLines(narrative)[i]

(***************************************************************************)
(* C27: the stored object a pairing row points to.                          *)
(***************************************************************************)
\* C27: after any runs of create_recommendation every pairing row's
\* image_path names a stored object, and its bytes are the image extracted
\* for the figure of that row (a figure's caption and its bytes carry the
\* same mark, the document and the figure's place in it), also when the
\* upload met an existing figure_{n}.png and that object was kept.  Every
\* run counts its figures from 1, so the object kept can be another
\* figure's.
C27_PairingPointsToItsImage ==
  \A p \in pairings_tbl :
    /\ p.image_path \in DOMAIN images
    /\ images[p.image_path] = p.figure_content

(***************************************************************************)
(* C28: a document given up after its old rows were deleted.                *)
(***************************************************************************)
RecEnded(r) == entry[r] \in {"rec", "sub"} /\ pc[r] \notin RecPositions

\* C28: when create_recommendation has deleted the rows of a document and
\* then gives the document up before a new row is inserted (the download or
\* the parse fails, no figure is extracted, or the insert of the request
\* fails), the deleted row is not put back: at the end of the run no request
\* row has that file_name.
C28_DeletedRecordNotRestored ==
  \A r \in Slots :
    RecEnded(r) =>
      \A file_name \in rc[r].lost :
        ~\E row \in requests : row.file_name = file_name

\* A run has ended that deleted the rows of a document and gave it up, though
\* a row for it had been inserted before.
C28_Witness ==
  \E r \in Slots :
    /\ RecEnded(r)
    /\ pc[r] = "done"
    /\ rc[r].lost # {}
    /\ rc[r].lost \subseteq rc[r].reprocessed
    /\ next_id > 1

(***************************************************************************)
(* C29: the documents the later stages of a pipeline run work on.           *)
(***************************************************************************)
InList(x, l) == \E i \in 1..Len(l) : l[i] = x

\* C29: in a run of process_subscription every document the Extract and the
\* Narrate stage work on is one of the files the Scrape stage of the same
\* run reported as uploaded.  The later stages list the path again and take
\* the first PDF in it, which can be one an earlier request left there.
C29_LaterStagesUseThisRunsFiles ==
  \A r \in Slots :
    entry[r] = "sub" =>
      /\ \A i \in 1..Len(rc[r].pdf_files) :
           InList(rc[r].pdf_files[i], sb[r].uploaded_files)
      /\ \A i \in 1..Len(mg[r].pdf_files) :
           InList(mg[r].pdf_files[i], sb[r].uploaded_files)
====
